---- MODULE Spec2Model ----
(***************************************************************************)
(* A state-machine model of the ck command line front end (ck-cli), the    *)
(* model downloader (ck-embed/src/download.rs) and the model-name          *)
(* validation (ck-models/src/validation.rs).                               *)
(*                                                                         *)
(* Each component is one record-valued variable holding its fields, its    *)
(* position (pc) and a log of the external calls it has made.  The         *)
(* external collaborators (stdin, the model cache, the network, ck_index,  *)
(* ck_search) are inputs, fixed in the variable env by the initial state.  *)
(* The sidecar index store of ck_index, which the clean and index commands *)
(* change, is the variable st, with the history of the calls made on it.   *)
(*                                                                         *)
(* The repository holds two front ends: the dispatcher with its commands   *)
(* (main_complex.rs, dispatcher.rs, commands/) and the subcommand binary   *)
(* whose run does each subcommand in one arm of a match (main.rs).  A      *)
(* process is one or the other; both are modelled on the same variables.   *)
(***************************************************************************)
EXTENDS Integers, Sequences, FiniteSets, TLC

VARIABLES
    cli,    \* the parsed command line (struct Cli)
    env,    \* the answers of the external collaborators
    proc,   \* the process: dispatch position, handler run, exit code
    cl,     \* the CleanCommand being executed
    dl,     \* the ModelDownloader running download_with_retry
    ix,     \* the IndexCommand being executed
    se,     \* the SearchCommand being executed
    st      \* the sidecar index store under the root, with its source files

vars == <<cli, env, proc, cl, dl, ix, se, st>>

\* What an action of one component leaves alone.
ExceptClean == <<cli, env, proc, dl, ix, se, st>>

ExceptDownloader == <<cli, env, proc, cl, ix, se, st>>

ExceptIndex == <<cli, env, proc, cl, dl, se, st>>

ExceptSearch == <<cli, env, proc, cl, dl, ix, st>>

\* The same for the steps that call into ck_index and change the store.
ExceptCleanAndStore == <<cli, env, proc, dl, ix, se>>

ExceptIndexAndStore == <<cli, env, proc, cl, dl, se>>

(***************************************************************************)
(* Bounds of the model.                                                    *)
(***************************************************************************)
MaxInputLen == 3

MaxRetries == 4

MaxTimeout == 2

MaxDur == 3

MaxPaths == 2

MaxHits == 1

MaxOps == 2

(***************************************************************************)
(* Option<T>: None is the empty sequence, Some(x) the sequence <<x>>.      *)
(***************************************************************************)
None == <<>>

Some(x) == <<x>>

IsSome(o) == Len(o) = 1

Unwrap(o) == o[1]

(***************************************************************************)
(* Strings read from stdin are sequences of characters.                    *)
(***************************************************************************)
Chars == {"y", "Y", "n", " ", "\n"}

is_whitespace(c) == c \in {" ", "\n"}

to_ascii_lowercase(c) == IF c = "Y" THEN "y" ELSE c

RECURSIVE trim_start(_)
trim_start(s) ==
    IF s = <<>> THEN <<>>
    ELSE IF is_whitespace(Head(s)) THEN trim_start(Tail(s))
    ELSE s

RECURSIVE trim_end(_)
trim_end(s) ==
    IF s = <<>> THEN <<>>
    ELSE IF is_whitespace(s[Len(s)]) THEN trim_end(SubSeq(s, 1, Len(s) - 1))
    ELSE s

trim(s) == trim_end(trim_start(s))

eq_ignore_ascii_case(a, b) ==
    /\ Len(a) = Len(b)
    /\ \A i \in 1..Len(a) : to_ascii_lowercase(a[i]) = to_ascii_lowercase(b[i])

\* io::stdin().read_line: the bytes of the stream up to and including the
\* first newline, or all of them when the stream ends without one.
RECURSIVE read_line(_)
read_line(stream) ==
    IF stream = <<>> THEN <<>>
    ELSE IF Head(stream) = "\n" THEN <<"\n">>
    ELSE <<Head(stream)>> \o read_line(Tail(stream))

RECURSIVE SeqsUpTo(_, _)
SeqsUpTo(S, n) ==
    IF n = 0 THEN {<<>>}
    ELSE LET shorter == SeqsUpTo(S, n - 1)
         IN  shorter \cup {Append(s, c) : s \in {t \in shorter : Len(t) = n - 1}, c \in S}

(***************************************************************************)
(* The command line (dispatcher.rs, struct Cli) and the command context.   *)
(***************************************************************************)
DefaultCli ==
    [ pattern |-> None, files |-> <<>>, index |-> FALSE, reindex |-> FALSE,
      status |-> FALSE, status_verbose |-> FALSE, clean |-> FALSE,
      clean_orphans |-> FALSE, add |-> None, inspect |-> FALSE,
      download_model |-> None, offline |-> FALSE, model |-> None,
      files_with_matches |-> FALSE, files_without_matches |-> FALSE,
      regex |-> FALSE, lex |-> FALSE, sem |-> FALSE, hybrid |-> FALSE,
      topk |-> None, limit |-> None, exclude |-> {},
      verbose |-> FALSE, quiet |-> FALSE, no_progress |-> FALSE ]

CommandContextOf(c) ==
    [ verbose |-> c.verbose, quiet |-> c.quiet, no_progress |-> c.no_progress ]

(***************************************************************************)
(* The environment: what the external collaborators will answer.           *)
(***************************************************************************)
DefaultEnv ==
    [ stdin |-> <<>>, io_error |-> "none", clean_ok |-> TRUE, orphans |-> 0,
      cache |-> [ dir |-> FALSE, onnx |-> FALSE, optimized |-> FALSE ],
      fastembed |-> TRUE, mkdir_ok |-> TRUE, script |-> <<>>,
      path |-> "dir", update_ok |-> TRUE, cwd_ok |-> TRUE, stats_ok |-> TRUE ]

(***************************************************************************)
(* The sidecar index store (ck_index).  Every source file under the root   *)
(* has a content version (0: the file does not exist) and at most one      *)
(* sidecar entry, built from a content version with a model.               *)
(***************************************************************************)
SourceFiles == {"a.rs", "b.rs"}

Versions == {1, 2}

IndexModels == {"nomic-embed-text-v1.5", "BAAI/bge-base-en-v1.5"}

\* Fingerprint, reduced to the content and the model it identifies.
Fingerprint(content, model) == [ content |-> content, model |-> model ]

\* A sidecar entry: the fingerprint and the chunks (with their embeddings),
\* named by the content they were made from.
SidecarEntry(fingerprint, chunks) == [ fingerprint |-> fingerprint, chunks |-> chunks ]

\* The entry a rebuild of a file makes.
BuildEntry(content, model) == SidecarEntry(Fingerprint(content, model), content)

IsOrphan(store, f) == IsSome(store.entries[f]) /\ store.source[f] = 0

\* clean_orphaned_sidecars keeping nothing: every entry goes.
clean_orphaned_sidecars_all(store) ==
    [ store |-> [ store EXCEPT !.entries = [ f \in SourceFiles |-> None ] ],
      removed |-> Cardinality({ f \in SourceFiles : IsSome(store.entries[f]) }) ]

\* clean_orphans(root): removes the entries whose source file no longer
\* exists and returns how many it removed.
clean_orphaned_sidecars(store) ==
    [ store |-> [ store EXCEPT !.entries =
                    [ f \in SourceFiles |-> IF IsOrphan(store, f) THEN None
                                            ELSE store.entries[f] ] ],
      removed |-> Cardinality({ f \in SourceFiles : IsOrphan(store, f) }) ]

\* clean(root): removes every entry under the root.
clean_index(store) == [ store EXCEPT !.entries = [ f \in SourceFiles |-> None ] ]

\* Every file is rebuilt at every run.
NeedsRebuildAlways(store, f, force_rebuild, model) == TRUE

\* Whether update rebuilds the entry of an existing file.
NeedsRebuild(store, f, force_rebuild, model) ==
    \/ force_rebuild
    \/ ~IsSome(store.entries[f])
    \/ Unwrap(store.entries[f]).fingerprint # Fingerprint(store.source[f], model)

\* The exclude lists given to update, each as the set of the files its
\* patterns match.
ExcludeSets == { {}, {"a.rs"} }

\* The files update walks: those that exist and that no exclude pattern
\* matches (excludes is the set of the files the patterns match).
EligibleFiles(store, excludes) ==
    { f \in SourceFiles : store.source[f] # 0 /\ f \notin excludes }

\* The files update has to rebuild.
StaleFiles(store, force_rebuild, excludes, model) ==
    { f \in EligibleFiles(store, excludes) : NeedsRebuild(store, f, force_rebuild, model) }

\* update(root, force_rebuild, excludes, model) -> IndexStats.  failing is
\* the set of the files whose chunking or embedding fails in this run: such
\* a failure is recorded and the walk goes on, the entry of the file stays
\* as it was (entries are replaced whole or not at all), and the run is
\* fatal (ok = FALSE) only when there are files and none could be processed.
smart_update_index(store, force_rebuild, excludes, model, failing) ==
    LET eligible == EligibleFiles(store, excludes)
        stale    == StaleFiles(store, force_rebuild, excludes, model)
        failed   == stale \cap failing
        rebuilt  == stale \ failing
        skipped  == eligible \ stale
    IN  [ store |-> [ store EXCEPT !.entries =
                        [ f \in SourceFiles |->
                            IF f \in rebuilt
                            THEN Some(BuildEntry(store.source[f], model))
                            ELSE store.entries[f] ] ],
          stats |-> [ files_indexed |-> Cardinality(rebuilt),
                      files_skipped |-> Cardinality(skipped),
                      total_files   |-> Cardinality(eligible),
                      failed        |-> failed ],
          ok |-> ~(eligible # {} /\ rebuilt = {} /\ skipped = {}) ]

\* The files and entries of a store at one moment.
Snapshot(store) == [ source |-> store.source, entries |-> store.entries ]

NoArgs == [ force_rebuild |-> FALSE, model |-> "", excludes |-> {} ]

NoStats == [ files_indexed |-> 0, files_skipped |-> 0, total_files |-> 0, failed |-> {} ]

\* One call made on the store, as recorded in its history: the operation,
\* its arguments, the store before and after, and what it returned.
StoreCall(op, args, before, after, removed, stats) ==
    [ op |-> op, args |-> args, before |-> Snapshot(before), after |-> Snapshot(after),
      removed |-> removed, stats |-> stats ]

\* The store after a call, with the call added to its history.
Recorded(store, call) == [ store EXCEPT !.history = Append(@, call) ]

\* The worker that rebuilds the entry of a file, before it has started.
IdleWriter == [ pc |-> "idle", old |-> None, model |-> "" ]

\* A store with one file not indexed yet and one orphaned entry.
DefaultStore ==
    [ source  |-> [ f \in SourceFiles |-> IF f = "a.rs" THEN 1 ELSE 0 ],
      entries |-> [ f \in SourceFiles |->
                      IF f = "a.rs" THEN None
                      ELSE Some(BuildEntry(1, "nomic-embed-text-v1.5")) ],
      history |-> <<>>,
      tmp     |-> [ f \in SourceFiles |-> None ],
      writer  |-> [ f \in SourceFiles |-> IdleWriter ],
      reads   |-> {} ]

\* write(file, entry), first half: the artifact is written where the readers
\* look, over the published entry.
stage_in_place(store, f, entry) == [ store EXCEPT !.entries[f] = Some(entry) ]

\* write(file, entry), first half: the new artifact, as far as it is
\* written, is kept off to the side.
stage(store, f, entry) == [ store EXCEPT !.tmp[f] = Some(entry) ]

\* write(file, entry), second half: one atomic replace of the persisted
\* artifact by the one built off to the side.
publish(store, f) ==
    IF IsSome(store.tmp[f])
    THEN [ store EXCEPT !.entries[f] = store.tmp[f], !.tmp[f] = None ]
    ELSE store

\* read(file) -> Option<SidecarEntry>: the persisted artifact of the file.
read(store, f) == store.entries[f]

\* The chunks of an artifact whose chunks are not written yet.
NoChunks == 0

\* A worker starts the rebuild of an existing file's entry.
SwBegin(f) ==
    /\ st.writer[f].pc = "idle"
    /\ st.source[f] # 0
    /\ \E model \in IndexModels :
          st' = [ st EXCEPT !.writer[f] = [ pc |-> "building", old |-> st.entries[f],
                                            model |-> model ] ]
    /\ UNCHANGED <<cli, env, proc, cl, dl, ix, se>>

\* The worker has written the fingerprint of the new artifact.
SwWriteFingerprint(f) ==
    /\ st.writer[f].pc = "building"
    /\ st' = [ stage(st, f, SidecarEntry(Fingerprint(st.source[f], st.writer[f].model),
                                         NoChunks))
                EXCEPT !.writer[f].pc = "fingerprint_written" ]
    /\ UNCHANGED <<cli, env, proc, cl, dl, ix, se>>

\* The worker has written the chunks too: the new artifact is complete.
SwWriteChunks(f) ==
    /\ st.writer[f].pc = "fingerprint_written"
    /\ st' = [ stage(st, f, BuildEntry(st.source[f], st.writer[f].model))
                EXCEPT !.writer[f].pc = "staged" ]
    /\ UNCHANGED <<cli, env, proc, cl, dl, ix, se>>

\* The worker publishes the new artifact.
SwPublish(f) ==
    /\ st.writer[f].pc = "staged"
    /\ st' = [ publish(st, f) EXCEPT !.writer[f].pc = "done" ]
    /\ UNCHANGED <<cli, env, proc, cl, dl, ix, se>>

\* The worker crashes before it has published.
SwCrash(f) ==
    /\ st.writer[f].pc \in {"building", "fingerprint_written", "staged"}
    /\ st' = [ st EXCEPT !.writer[f].pc = "crashed" ]
    /\ UNCHANGED <<cli, env, proc, cl, dl, ix, se>>

\* A search reads the entry of a file.
SwRead(f) ==
    /\ st' = [ st EXCEPT !.reads = @ \cup { [ file |-> f, entry |-> read(st, f) ] } ]
    /\ UNCHANGED <<cli, env, proc, cl, dl, ix, se>>

SidecarNext ==
    \E f \in SourceFiles :
        \/ SwBegin(f) \/ SwWriteFingerprint(f) \/ SwWriteChunks(f)
        \/ SwPublish(f) \/ SwCrash(f) \/ SwRead(f)

(***************************************************************************)
(* CleanCommand (commands/clean.rs).                                       *)
(***************************************************************************)
IdleClean ==
    [ pc |-> "idle", orphans_only |-> FALSE, context |-> CommandContextOf(DefaultCli),
      input |-> None, log |-> <<>>, report |-> <<>>, result |-> "none" ]

\* --clean wins over --clean-orphans.
CleanCommandOfCleanFirst(c) ==
    [ IdleClean EXCEPT !.pc = "execute",
                       !.orphans_only = c.clean_orphans /\ ~c.clean,
                       !.context = CommandContextOf(c) ]

\* CleanCommand::new, then orphans_only() and the context as clean_command
\* sets them.
CleanCommandOf(c) ==
    [ IdleClean EXCEPT !.pc = "execute",
                       !.orphans_only = c.clean_orphans,
                       !.context = CommandContextOf(c) ]

\* Lines 49-56: the message about the sweep's count.
CleanReport(removed) ==
    IF removed > 0 THEN [ kind |-> "removed_orphans", val |-> removed ]
    ELSE [ kind |-> "no_orphans_found", val |-> 0 ]

\* Lines 41-56: the orphan sweep.
CleanOrphansBranch ==
    /\ cl.pc = "execute"
    /\ cl.orphans_only
    /\ IF env.clean_ok
       THEN LET swept == clean_orphaned_sidecars(st)
                removed == swept.removed
            IN  /\ st' = Recorded(swept.store,
                                  StoreCall("clean_orphaned_sidecars", NoArgs, st,
                                            swept.store, removed, NoStats))
                /\ cl' = [ cl EXCEPT !.pc = "done", !.result = "Ok",
                                     !.log = Append(@, "clean_orphaned_sidecars"),
                                     !.report = Append(@, CleanReport(removed)) ]
       ELSE /\ st' = st
            /\ cl' = [ cl EXCEPT !.pc = "done", !.result = "Err",
                                 !.log = Append(@, "clean_orphaned_sidecars") ]
    /\ UNCHANGED ExceptCleanAndStore

\* Lines 57-64: the warning, and whether the prompt is shown.
CleanWarn ==
    /\ cl.pc = "execute"
    /\ ~cl.orphans_only
    /\ cl' = [ cl EXCEPT !.pc = IF ~cl.context.quiet THEN "prompt" ELSE "remove",
                         !.log = Append(@, "warning") ]
    /\ UNCHANGED ExceptClean

\* Lines 65-75: the prompt, the answer and the comparison with "y".
CleanPrompt ==
    /\ cl.pc = "prompt"
    /\ IF env.io_error = "flush"
       THEN cl' = [ cl EXCEPT !.pc = "done", !.result = "Err",
                              !.log = Append(@, "print_prompt") ]
       ELSE IF env.io_error = "read"
       THEN cl' = [ cl EXCEPT !.pc = "done", !.result = "Err",
                              !.log = @ \o <<"print_prompt", "read_line">> ]
       ELSE LET input == read_line(env.stdin)
            IN  IF ~eq_ignore_ascii_case(trim(input), <<"y">>)
                THEN cl' = [ cl EXCEPT !.pc = "done", !.result = "Ok",
                                       !.input = Some(input),
                                       !.log = @ \o <<"print_prompt", "read_line", "cancelled">> ]
                ELSE cl' = [ cl EXCEPT !.pc = "remove",
                                       !.input = Some(input),
                                       !.log = @ \o <<"print_prompt", "read_line">> ]
    /\ UNCHANGED ExceptClean

\* Lines 78-82: the full wipe.
CleanRemove ==
    /\ cl.pc = "remove"
    /\ cl' = [ cl EXCEPT !.pc = "done",
                         !.log = Append(@, "clean_index"),
                         !.result = IF env.clean_ok THEN "Ok" ELSE "Err" ]
    /\ st' = IF env.clean_ok
             THEN Recorded(clean_index(st),
                           StoreCall("clean_index", NoArgs, st, clean_index(st), 0, NoStats))
             ELSE st
    /\ UNCHANGED ExceptCleanAndStore

CleanNext == CleanOrphansBranch \/ CleanWarn \/ CleanPrompt \/ CleanRemove

(***************************************************************************)
(* ModelDownloader (ck-embed/src/download.rs).                             *)
(***************************************************************************)
VALID_MODELS ==
    { "BAAI/bge-small-en-v1.5", "nomic-embed-text-v1.5",
      "jina-embeddings-v2-base-code", "sentence-transformers/all-MiniLM-L6-v2",
      "BAAI/bge-base-en-v1.5", "BAAI/bge-large-en-v1.5" }

\* Every name is taken for a valid model.
is_valid_model_always(model) == TRUE

is_valid_model(model) == model \in VALID_MODELS

\* get_valid_models: the names in the order of the constant.
get_valid_models ==
    << "BAAI/bge-small-en-v1.5", "nomic-embed-text-v1.5",
       "jina-embeddings-v2-base-code", "sentence-transformers/all-MiniLM-L6-v2",
       "BAAI/bge-base-en-v1.5", "BAAI/bge-large-en-v1.5" >>

\* parse_model_name: Ok for the three names it matches, "Unknown model" else.
parse_model_name(model_name) ==
    model_name \in { "BAAI/bge-small-en-v1.5", "nomic-embed-text-v1.5",
                     "jina-embeddings-v2-base-code" }

\* ModelDownloadConfig::default (cache_dir is the one directory env.cache
\* describes); the timeout is counted in ticks.
DefaultConfig ==
    [ max_retries |-> 3, timeout |-> MaxTimeout, offline_mode |-> FALSE, verbose |-> FALSE ]

\* The cache is never looked into: the model is taken as not cached.
check_model_cached_never(config, cache) ==
    IF config.offline_mode THEN "err" ELSE "none"

\* Lines 75 and 199: the path of a model, cache_dir.join(model_name).
model_path(model_name) == <<"cache_dir", model_name>>

\* The model directory alone counts as the cached model.
check_model_cached_dir_only(config, cache) ==
    IF cache.dir THEN "some"
    ELSE IF config.offline_mode THEN "err"
    ELSE "none"

\* check_model_cached: "some" when the model directory holds model.onnx or
\* model_optimized.onnx, "err" when it does not and offline_mode is set,
\* "none" otherwise.
check_model_cached(config, cache) ==
    IF cache.dir /\ (cache.onnx \/ cache.optimized) THEN "some"
    ELSE IF config.offline_mode THEN "err"
    ELSE "none"

\* u64::pow by repeated multiplication.
RECURSIVE pow(_, _)
pow(base, exp) == IF exp = 0 THEN 1 ELSE base * pow(base, exp - 1)

\* The exponent taken from the attempt number itself.
BackoffFromAttempt(attempt) == pow(2, attempt)

\* Line 120: Duration::from_secs(2_u64.pow(attempt - 1)), in seconds.
Backoff(attempt) == pow(2, attempt - 1)

\* A range that starts at 0: one attempt more.
HasNextAttemptFromZero(attempt, max_retries) == attempt <= max_retries

\* Line 118: for attempt in 1..=max_retries has a next value.
HasNextAttempt(attempt, max_retries) == attempt < max_retries

Ev(op, at, secs) == [ op |-> op, at |-> at, secs |-> secs ]

\* The task awaited without a timeout: its own result whenever it ends, and
\* no result at all when it never does.
AwaitWithoutTimeout(timeout, task) ==
    IF task.res = "hang"
    THEN [ result |-> "pending", elapsed |-> 0 ]
    ELSE [ result |-> task.res, elapsed |-> task.dur ]

\* tokio::time::timeout(timeout, task): the task's own result when it ends
\* within the timeout, Elapsed at the timeout otherwise.
Timeout(timeout, task) ==
    IF task.res # "hang" /\ task.dur <= timeout
    THEN [ result |-> task.res, elapsed |-> task.dur ]
    ELSE [ result |-> "elapsed", elapsed |-> timeout ]

\* What TextEmbedding::try_new on the blocking pool can do: end with Ok, with
\* an error or with a panic after dur ticks, or never end.
Tasks ==
    [ res : {"ok", "init_err", "panic"}, dur : 0..MaxDur ] \cup { [ res |-> "hang", dur |-> 0 ] }

\* The tasks the environment allows for this attempt: any, unless env.script
\* fixes whether the attempt succeeds.
TasksFor(attempt, timeout) ==
    IF attempt \in DOMAIN env.script
    THEN { t \in Tasks : (Timeout(timeout, t).result = "ok") <=> (env.script[attempt] = "ok") }
    ELSE Tasks

IdleDownloader ==
    [ pc |-> "idle", config |-> DefaultConfig, model_name |-> "nomic-embed-text-v1.5",
      attempt |-> 0, task |-> None, elapsed |-> 0, last_error |-> None,
      path |-> None, left_running |-> FALSE, log |-> <<>>, result |-> "none" ]

\* ModelDownloader::new(config), entering download_with_retry(model_name).
DownloaderOf(config, model_name) ==
    [ IdleDownloader EXCEPT !.pc = "start", !.config = config, !.model_name = model_name ]

\* Lines 112-116: the cache check.
DlCheckCached ==
    /\ dl.pc = "start"
    /\ LET c == check_model_cached(dl.config, env.cache)
       IN  dl' = IF c = "some"
                 THEN [ dl EXCEPT !.pc = "done", !.result = "Ok",
                                  !.path = Some(model_path(dl.model_name)) ]
                 ELSE IF c = "err"
                 THEN [ dl EXCEPT !.pc = "done", !.result = "Err",
                                  !.last_error = Some("not_cached_offline") ]
                 ELSE [ dl EXCEPT !.pc = "loop" ]
    /\ UNCHANGED ExceptDownloader

\* Lines 118-137: the next attempt number, the backoff wait before it and
\* the progress message.
DlLoopNext ==
    /\ dl.pc = "loop"
    /\ HasNextAttempt(dl.attempt, dl.config.max_retries)
    /\ LET attempt == dl.attempt + 1
       IN  dl' = [ dl EXCEPT !.pc = "try",
                             !.attempt = attempt,
                             !.log = IF attempt > 1
                                     THEN Append(@, Ev("sleep", attempt, Backoff(attempt)))
                                     ELSE @ ]
    /\ UNCHANGED ExceptDownloader

\* Lines 139 and 166-187 (with 149-155 for an early error): try_download
\* up to the point where the blocking task is awaited.
DlTryDownload ==
    /\ dl.pc = "try"
    /\ LET logged == Append(dl.log, Ev("try_download", dl.attempt, 0))
           failed(e) == [ dl EXCEPT !.pc = "loop", !.last_error = Some(e), !.elapsed = 0,
                                    !.log = Append(logged, Ev("attempt_failed", dl.attempt, 0)) ]
       IN  IF ~env.mkdir_ok THEN dl' = failed("create_dir")
           ELSE IF ~env.fastembed THEN dl' = failed("feature_disabled")
           ELSE IF ~parse_model_name(dl.model_name) THEN dl' = failed("unknown_model")
           ELSE \E t \in TasksFor(dl.attempt, dl.config.timeout) :
                   dl' = [ dl EXCEPT !.pc = "await", !.task = Some(t), !.elapsed = 0,
                                     !.log = logged ]
    /\ UNCHANGED ExceptDownloader

\* Lines 183-203 and 139-155: the timeout around the task resolves, and the
\* caller returns Ok or records the error.  The timeout drops the handle of
\* the task, not the task: one that never ends stays on the blocking pool
\* (left_running).
DlAwait ==
    /\ dl.pc = "await"
    /\ LET r == Timeout(dl.config.timeout, Unwrap(dl.task))
       IN  /\ r.result # "pending"
           /\ dl' = IF r.result = "ok"
                    THEN [ dl EXCEPT !.pc = "done", !.result = "Ok", !.task = None,
                                     !.path = Some(model_path(dl.model_name)),
                                     !.elapsed = r.elapsed,
                                     !.log = Append(@, Ev("attempt_ok", dl.attempt, 0)) ]
                    ELSE [ dl EXCEPT !.pc = "loop", !.task = None,
                                     !.elapsed = r.elapsed,
                                     !.left_running = @ \/ Unwrap(dl.task).res = "hang",
                                     !.last_error = Some(r.result),
                                     !.log = Append(@, Ev("attempt_failed", dl.attempt, 0)) ]
    /\ UNCHANGED ExceptDownloader

\* Lines 158-163: the attempts are used up.
DlExhausted ==
    /\ dl.pc = "loop"
    /\ ~HasNextAttempt(dl.attempt, dl.config.max_retries)
    /\ dl' = [ dl EXCEPT !.pc = "done", !.result = "Err",
                         !.last_error = IF IsSome(@) THEN @ ELSE Some("no_attempts") ]
    /\ UNCHANGED ExceptDownloader

DownloaderNext == DlCheckCached \/ DlLoopNext \/ DlTryDownload \/ DlAwait \/ DlExhausted

(***************************************************************************)
(* IndexCommand (commands/index.rs).                                       *)
(***************************************************************************)
\* IndexCommand::new.
IdleIndex ==
    [ pc |-> "idle", model |-> None, force_rebuild |-> FALSE,
      context |-> CommandContextOf(DefaultCli), max_retries |-> 3,
      model_name |-> "", attempts |-> 0, last_error |-> None, available |-> None,
      indexed |-> None, exclude_patterns |-> {},
      log |-> <<>>, result |-> "none" ]

\* index_command (dispatcher.rs 206-218): the command as built from the
\* command line; --offline sets max_retries to 0.
IndexCommandOf(c) ==
    [ IdleIndex EXCEPT !.pc = "validate",
                       !.context = CommandContextOf(c),
                       !.model = c.model,
                       !.exclude_patterns = c.exclude,
                       !.force_rebuild = c.reindex,
                       !.max_retries = IF c.offline THEN 0 ELSE @ ]

\* add_file_command (dispatcher.rs 315-319).
AddFileCommandOf(c) ==
    [ IdleIndex EXCEPT !.pc = "validate",
                       !.context = CommandContextOf(c),
                       !.model = c.model ]

\* Lines 208-219: validate, called by the dispatcher before execute.
IxValidate ==
    /\ ix.pc = "validate"
    /\ ix' = IF IsSome(ix.model) /\ ~is_valid_model(Unwrap(ix.model))
             THEN [ ix EXCEPT !.pc = "done", !.result = "Err",
                              !.last_error = Some("model_not_found"),
                              !.available = Some(get_valid_models) ]
             ELSE [ ix EXCEPT !.pc = "prerequisites" ]
    /\ UNCHANGED ExceptIndex

\* Every path passes.
validate_prerequisites_any(path) == None

\* Lines 97-107: validate_prerequisites, its error if it has one.
validate_prerequisites(path) ==
    IF path = "missing" THEN Some("path_does_not_exist")
    ELSE IF path \notin {"dir", "file"} THEN Some("path_not_file_or_dir")
    ELSE None

\* Lines 139-146 with validate_prerequisites (97-107) and the model name.
IxPrerequisites ==
    /\ ix.pc = "prerequisites"
    /\ ix' = IF IsSome(validate_prerequisites(env.path))
             THEN [ ix EXCEPT !.pc = "done", !.result = "Err",
                              !.last_error = validate_prerequisites(env.path) ]
             ELSE [ ix EXCEPT !.pc = "download",
                              !.model_name = IF IsSome(ix.model) THEN Unwrap(ix.model)
                                             ELSE "nomic-embed-text-v1.5" ]
    /\ UNCHANGED ExceptIndex

\* Lines 33-49: max_retries = 0 only looks into the cache, with a downloader
\* in offline mode.
IxOfflineCheck ==
    /\ ix.pc = "download"
    /\ ix.max_retries = 0
    /\ LET config == [ DefaultConfig EXCEPT !.offline_mode = TRUE,
                                            !.verbose = ix.context.verbose ]
           c == check_model_cached(config, env.cache)
       IN  ix' = IF c = "some"
                 THEN [ ix EXCEPT !.pc = "update",
                                  !.log = Append(@, Ev("check_model_cached", 0, 0)) ]
                 ELSE [ ix EXCEPT !.pc = "done", !.result = "Err",
                                  !.last_error = Some("not_cached_offline"),
                                  !.log = Append(@, Ev("check_model_cached", 0, 0)) ]
    /\ UNCHANGED ExceptIndex

\* Lines 51-52: the loop's variables.
IxLoopEnter ==
    /\ ix.pc = "download"
    /\ ix.max_retries # 0
    /\ ix' = [ ix EXCEPT !.pc = "loop", !.attempts = 0, !.last_error = None ]
    /\ UNCHANGED ExceptIndex

\* Line 59: Duration::from_secs(2_u64.pow(attempts - 1)), in seconds.
IxBackoff(attempts) == pow(2, attempts - 1)

\* Line 57: the retry message and the backoff wait are made under this test.
IxWaits(attempts, quiet) == attempts > 1 /\ ~quiet

\* Lines 54-60: the next attempt, with the retry message and the wait.
IxLoopNext ==
    /\ ix.pc = "loop"
    /\ ix.attempts < ix.max_retries
    /\ LET attempts == ix.attempts + 1
       IN  ix' = [ ix EXCEPT !.pc = "try",
                             !.attempts = attempts,
                             !.log = IF IxWaits(attempts, ix.context.quiet)
                                     THEN Append(@, Ev("sleep", attempts, IxBackoff(attempts)))
                                     ELSE @ ]
    /\ UNCHANGED ExceptIndex

\* Whether create_embedder_with_progress may succeed at this attempt: either,
\* unless env.script fixes it.
EmbedderResultsFor(attempts) ==
    IF attempts \in DOMAIN env.script THEN { env.script[attempts] = "ok" } ELSE BOOLEAN

\* Lines 62-70 with try_download_model (81-95).
IxTryDownloadModel ==
    /\ ix.pc = "try"
    /\ \E ok \in EmbedderResultsFor(ix.attempts) :
          ix' = IF ok
                THEN [ ix EXCEPT !.pc = "update",
                                 !.log = @ \o << Ev("try_download", ix.attempts, 0),
                                                 Ev("attempt_ok", ix.attempts, 0) >> ]
                ELSE [ ix EXCEPT !.pc = "loop",
                                 !.last_error = Some("embedder"),
                                 !.log = @ \o << Ev("try_download", ix.attempts, 0),
                                                 Ev("attempt_failed", ix.attempts, 0) >> ]
    /\ UNCHANGED ExceptIndex

\* Lines 73-78 and 148-153: the attempts are used up, execute returns Err.
IxExhausted ==
    /\ ix.pc = "loop"
    /\ ~(ix.attempts < ix.max_retries)
    /\ ix' = [ ix EXCEPT !.pc = "done", !.result = "Err",
                         !.last_error = Some("download_failed") ]
    /\ UNCHANGED ExceptIndex

\* Lines 155-205: the index update and the success message.
IxUpdate ==
    /\ ix.pc = "update"
    /\ \E failing \in SUBSET StaleFiles(st, ix.force_rebuild, ix.exclude_patterns,
                                         ix.model_name) :
          LET updated == smart_update_index(st, ix.force_rebuild, ix.exclude_patterns,
                                            ix.model_name, failing)
              stats == updated.stats
          IN  IF env.update_ok /\ updated.ok
              THEN /\ st' = Recorded(updated.store,
                                     StoreCall("smart_update_index",
                                               [ force_rebuild |-> ix.force_rebuild,
                                                 model |-> ix.model_name,
                                                 excludes |-> ix.exclude_patterns ],
                                               st, updated.store, 0, stats))
                   /\ ix' = [ ix EXCEPT !.pc = "done", !.result = "Ok",
                                        !.indexed = Some(stats.files_indexed),
                                        !.log = @ \o << Ev("smart_update_index", 0, 0),
                                                        Ev("indexed_message", 0, 0) >> ]
              ELSE /\ st' = st
                   /\ ix' = [ ix EXCEPT !.pc = "done", !.result = "Err",
                                        !.last_error = Some("indexing_failed"),
                                        !.log = Append(@, Ev("smart_update_index", 0, 0)) ]
    /\ UNCHANGED ExceptIndexAndStore

IndexNext ==
    \/ IxValidate \/ IxPrerequisites \/ IxOfflineCheck \/ IxLoopEnter
    \/ IxLoopNext \/ IxTryDownloadModel \/ IxExhausted \/ IxUpdate

(***************************************************************************)
(* SearchCommand (commands/search.rs).  ck_search::search answers each     *)
(* call with an error or with the results of one path and their summary.   *)
(***************************************************************************)
Files == {"a.rs", "b.rs"}

FileOrder == <<"a.rs", "b.rs">>

Scores == {1, 2}

\* One answer of ck_search::search: the matches per file, the number of
\* files looked at, and the best result under the threshold if there is one.
SearchOutcomes ==
    { o \in [ err : BOOLEAN, hits : [Files -> 0..MaxHits],
              files_searched : 0..Cardinality(Files),
              closest : {None} \cup {Some(x) : x \in Scores} ] :
        /\ o.err => /\ o.hits = [f \in Files |-> 0]
                    /\ o.files_searched = 0
                    /\ o.closest = None
        /\ Cardinality({f \in Files : o.hits[f] > 0}) <= o.files_searched
        /\ IsSome(o.closest) => \A f \in Files : o.hits[f] = 0 }

RECURSIVE Repeat(_, _)
Repeat(x, n) == IF n = 0 THEN <<>> ELSE <<x>> \o Repeat(x, n - 1)

RECURSIVE ResultsFrom(_, _)
ResultsFrom(o, k) ==
    IF k > Len(FileOrder) THEN <<>>
    ELSE Repeat(FileOrder[k], o.hits[FileOrder[k]]) \o ResultsFrom(o, k + 1)

\* SearchResults.results: one result per match, file by file.
ResultsOf(o) == ResultsFrom(o, 1)

\* SearchResults.summary of one path.
SummaryOf(o) ==
    [ total_matches |-> Len(ResultsOf(o)),
      files_with_matches |-> Cardinality({f \in Files : o.hits[f] > 0}),
      files_searched |-> o.files_searched,
      closest_below_threshold |-> o.closest ]

\* SearchSummary::default.
DefaultSummary ==
    [ total_matches |-> 0, files_with_matches |-> 0, files_searched |-> 0,
      closest_below_threshold |-> None ]

\* SearchSummary::merge: the counters are summed, the better of the two
\* results under the threshold is kept.
merge(self, other) ==
    [ total_matches |-> self.total_matches + other.total_matches,
      files_with_matches |-> self.files_with_matches + other.files_with_matches,
      files_searched |-> self.files_searched + other.files_searched,
      closest_below_threshold |->
          IF ~IsSome(other.closest_below_threshold) THEN self.closest_below_threshold
          ELSE IF ~IsSome(self.closest_below_threshold) THEN other.closest_below_threshold
          ELSE IF Unwrap(other.closest_below_threshold) > Unwrap(self.closest_below_threshold)
               THEN other.closest_below_threshold
          ELSE self.closest_below_threshold ]

Out(kind, val) == [ kind |-> kind, val |-> val ]

\* The nearest result printed whatever the number of matches.
print_summary_nearest_always(context, summary) ==
    IF ~context.quiet
    THEN ( IF summary.total_matches = 0 THEN <<Out("no_matches", 0)>>
           ELSE IF context.verbose THEN <<Out("found", summary.total_matches)>>
           ELSE <<>> )
         \o ( IF IsSome(summary.closest_below_threshold)
               THEN <<Out("nearest", Unwrap(summary.closest_below_threshold))>>
               ELSE <<>> )
    ELSE <<>>

\* Lines 86-106: print_summary, as the lines it writes to stderr.
print_summary(context, summary) ==
    IF ~context.quiet
    THEN IF summary.total_matches = 0
         THEN <<Out("no_matches", 0)>> \o
              ( IF IsSome(summary.closest_below_threshold)
                THEN <<Out("nearest", Unwrap(summary.closest_below_threshold))>>
                ELSE <<>> )
         ELSE IF context.verbose
         THEN <<Out("found", summary.total_matches)>>
         ELSE <<>>
    ELSE <<>>

\* The summary of the last path replaces the total.
AccumulateOverwrite(total_summary, summary) == summary

\* Line 152: total_summary.merge(&results.summary).
Accumulate(total_summary, summary) == merge(total_summary, summary)

\* Lines 143-150: what the loop prints for the results of one path.
RECURSIVE print_results(_, _)
print_results(options, results) ==
    IF results = <<>> THEN <<>>
    ELSE ( IF options.files_with_matches THEN <<Out("file", Head(results))>>
           ELSE IF ~options.files_without_matches THEN <<Out("result", Head(results))>>
           ELSE <<>> )
         \o print_results(options, Tail(results))

\* The exit code taken from the files looked at instead of the matches.
SearchExitCodeFromFilesSearched(summary) == IF summary.files_searched > 0 THEN 0 ELSE 1

\* Line 157: the exit code of a search that ran to the end.
SearchExitCode(summary) == IF summary.total_matches > 0 THEN 0 ELSE 1

\* SearchCommand::new.
IdleSearch ==
    [ pc |-> "idle", pattern |-> "", paths |-> <<>>, mode |-> "Regex",
      options |-> [ files_with_matches |-> FALSE, files_without_matches |-> FALSE,
                    topk |-> None ],
      context |-> CommandContextOf(DefaultCli),
      search_paths |-> <<>>, next |-> 1, seen |-> <<>>,
      total_summary |-> DefaultSummary, out |-> <<>>, error |-> None,
      result |-> "none" ]

\* --limit is looked at before --topk.
TopkOfLimitFirst(c) == IF IsSome(c.limit) THEN c.limit ELSE c.topk

\* search_command, dispatcher.rs 240: self.cli.topk.or(self.cli.limit).
TopkOf(c) == IF IsSome(c.topk) THEN c.topk ELSE c.limit

\* --lex is looked at before --sem.
ModeOfLexFirst(c) ==
    IF c.lex THEN "Lexical"
    ELSE IF c.sem THEN "Semantic"
    ELSE IF c.hybrid THEN "Hybrid"
    ELSE "Regex"

\* search_command, dispatcher.rs 230-238: the mode the flags select.
ModeOf(c) ==
    IF c.sem THEN "Semantic"
    ELSE IF c.lex THEN "Lexical"
    ELSE IF c.hybrid THEN "Hybrid"
    ELSE "Regex"

\* search_command (dispatcher.rs 223-272): the command as built from the
\* command line.
SearchCommandOf(c) ==
    [ IdleSearch EXCEPT
        !.pc = "validate",
        !.pattern = Unwrap(c.pattern),
        !.paths = IF c.files = <<>> THEN <<".">> ELSE c.files,
        !.mode = ModeOf(c),
        !.options = [ files_with_matches |-> c.files_with_matches,
                      files_without_matches |-> c.files_without_matches,
                      topk |-> TopkOf(c) ],
        !.context = CommandContextOf(c) ]

\* validate without the test of the two file-list flags.
validate_pattern_only(pattern, options) ==
    IF pattern = "" THEN "pattern_empty" ELSE "Ok"

\* Lines 161-171: validate, as Ok or the error it bails with.
validate(pattern, options) ==
    IF pattern = "" THEN "pattern_empty"
    ELSE IF options.files_with_matches /\ options.files_without_matches
    THEN "both_file_lists"
    ELSE "Ok"

\* dispatcher.rs 274-275: validate, called by the dispatcher before execute.
SeValidate ==
    /\ se.pc = "validate"
    /\ se' = IF validate(se.pattern, se.options) # "Ok"
             THEN [ se EXCEPT !.pc = "done", !.result = "Err",
                              !.error = Some(validate(se.pattern, se.options)) ]
             ELSE [ se EXCEPT !.pc = "execute" ]
    /\ UNCHANGED ExceptSearch

\* Lines 116-133: the paths to search and the semantic-search notice.
SeBegin ==
    /\ se.pc = "execute"
    /\ se' = [ se EXCEPT !.pc = "loop",
                         !.search_paths = IF se.paths = <<>> THEN <<".">> ELSE se.paths,
                         !.next = 1,
                         !.total_summary = DefaultSummary,
                         !.out = IF se.mode = "Semantic" /\ ~se.context.quiet
                                 THEN Append(@, Out("notice", 0)) ELSE @ ]
    /\ UNCHANGED ExceptSearch

\* Lines 136-141: the call ck_search::search(&self.pattern, path, self.mode,
\* self.options.clone()) with the answer it got.
SearchCall(self, o) ==
    [ pattern |-> self.pattern, path |-> self.search_paths[self.next],
      mode |-> self.mode, options |-> self.options, outcome |-> o ]

\* The error of one path is passed over and the loop goes on.
OnSearchErrorContinue(self, o) ==
    [ self EXCEPT !.next = @ + 1, !.seen = Append(@, SearchCall(self, o)) ]

\* Line 141: the ? on the answer of ck_search::search returns its error from
\* execute.
OnSearchError(self, o) ==
    [ self EXCEPT !.pc = "done", !.result = "Err",
                  !.seen = Append(@, SearchCall(self, o)) ]

\* Lines 135-153: one turn of the loop over the paths.
SeSearchPath ==
    /\ se.pc = "loop"
    /\ se.next <= Len(se.search_paths)
    /\ \E o \in SearchOutcomes :
          se' = IF o.err
                THEN OnSearchError(se, o)
                ELSE [ se EXCEPT !.next = @ + 1,
                                 !.seen = Append(@, SearchCall(se, o)),
                                 !.out = @ \o print_results(se.options, ResultsOf(o)),
                                 !.total_summary = Accumulate(@, SummaryOf(o)) ]
    /\ UNCHANGED ExceptSearch

\* Lines 155-158: the summary and the exit of the process.
SeFinish ==
    /\ se.pc = "loop"
    /\ se.next > Len(se.search_paths)
    /\ se' = [ se EXCEPT !.pc = "exited",
                         !.out = @ \o print_summary(se.context, se.total_summary) ]
    /\ proc' = [ proc EXCEPT !.pc = "exited",
                             !.exit_code = Some(SearchExitCode(se.total_summary)) ]
    /\ UNCHANGED <<cli, env, cl, dl, ix, st>>

SearchNext == SeValidate \/ SeBegin \/ SeSearchPath \/ SeFinish

(***************************************************************************)
(* The process: main (main_complex.rs) and CommandDispatcher::dispatch     *)
(* (dispatcher.rs).                                                        *)
(***************************************************************************)
IdleProc ==
    [ pc |-> "idle", handler |-> "none", result |-> "none", exit_code |-> None,
      log |-> <<>>, out |-> <<>>, error |-> None, command |-> None, next |-> 0 ]

StartedProc == [ IdleProc EXCEPT !.pc = "dispatch" ]

Running(handler) == [ proc EXCEPT !.pc = "running", !.handler = handler ]

\* clean is looked at before status.
HandlerCleanBeforeStatus(c) ==
    IF IsSome(c.download_model) THEN "download_model"
    ELSE IF c.index \/ c.reindex THEN "index"
    ELSE IF c.clean \/ c.clean_orphans THEN "clean"
    ELSE IF c.status \/ c.status_verbose THEN "status"
    ELSE IF IsSome(c.add) THEN "add"
    ELSE IF c.inspect THEN "inspect"
    ELSE IF IsSome(c.pattern) THEN "search"
    ELSE "none"

\* Lines 175-203: the handler dispatch chooses, in its fixed order.
Handler(c) ==
    IF IsSome(c.download_model) THEN "download_model"
    ELSE IF c.index \/ c.reindex THEN "index"
    ELSE IF c.status \/ c.status_verbose THEN "status"
    ELSE IF c.clean \/ c.clean_orphans THEN "clean"
    ELSE IF IsSome(c.add) THEN "add"
    ELSE IF c.inspect THEN "inspect"
    ELSE IF IsSome(c.pattern) THEN "search"
    ELSE "none"

\* download_model_command, lines 327-333: the downloader's configuration.
DownloadModelConfig(c) ==
    [ DefaultConfig EXCEPT !.offline_mode = FALSE, !.verbose = ~c.quiet ]

\* Line 172: current_dir()? fails.
DispatchCwdError ==
    /\ proc.pc = "dispatch"
    /\ ~env.cwd_ok
    /\ proc' = [ proc EXCEPT !.pc = "returned", !.result = "Err",
                             !.error = Some("current_dir") ]
    /\ UNCHANGED <<cli, env, cl, dl, ix, se, st>>

\* Lines 175-177 and 324-343.
DispatchDownloadModel ==
    /\ proc.pc = "dispatch" /\ env.cwd_ok
    /\ Handler(cli) = "download_model"
    /\ proc' = Running("download_model")
    /\ dl' = DownloaderOf(DownloadModelConfig(cli), Unwrap(cli.download_model))
    /\ UNCHANGED <<cli, env, cl, ix, se, st>>

\* Lines 179-181 and 206-218.
DispatchIndex ==
    /\ proc.pc = "dispatch" /\ env.cwd_ok
    /\ Handler(cli) = "index"
    /\ proc' = Running("index")
    /\ ix' = IndexCommandOf(cli)
    /\ UNCHANGED <<cli, env, cl, dl, se, st>>

\* stats(root) -> IndexStats: the entries under the root and the orphaned
\* ones among them.
get_index_stats(store) ==
    [ total_files |-> Cardinality({ f \in SourceFiles : IsSome(store.entries[f]) }),
      orphaned_files |-> Cardinality({ f \in SourceFiles : IsOrphan(store, f) }) ]

\* What a call into ck_index, ck_embed or ck_chunk does to the store: the
\* two cleans remove entries, every other call made here only reads.
ApplyCall(store, call) ==
    IF call = "clean_orphaned_sidecars" THEN clean_orphaned_sidecars(store).store
    ELSE IF call = "clean_index" THEN clean_index(store)
    ELSE store

RECURSIVE ApplyCalls(_, _)
ApplyCalls(store, calls) ==
    IF calls = <<>> THEN store
    ELSE ApplyCalls(ApplyCall(store, Head(calls)), Tail(calls))

\* status.rs 58: at most this many orphaned files are listed.
MaxOrphansListed == 10

\* status also sweeps the orphans it finds.
StatusCallsSweeping == <<"get_index_stats", "clean_orphaned_sidecars">>

\* status.rs 34: the one call StatusCommand::execute makes outside the CLI.
StatusCalls == <<"get_index_stats">>

\* status.rs 37-71: the lines execute prints for the stats.
StatusReport(stats, verbose) ==
    IF stats.total_files = 0 THEN <<Out("no_index_found", 0)>>
    ELSE <<Out("index_contains", stats.total_files)>> \o
         ( IF verbose
           THEN <<Out("index_size", 0), Out("last_updated", 0)>> \o
                ( IF stats.orphaned_files # 0
                  THEN <<Out("orphans_found", stats.orphaned_files)>> \o
                       ( IF stats.orphaned_files <= MaxOrphansListed
                         THEN <<Out("orphans_listed", stats.orphaned_files)>>
                         ELSE <<Out("orphans_listed", MaxOrphansListed),
                                Out("and_more", stats.orphaned_files - MaxOrphansListed)>> )
                       \o <<Out("clean_orphans_hint", 0)>>
                  ELSE <<>> )
           ELSE <<>> )

\* Lines 183-185 and 278-286, with StatusCommand::execute (status.rs 29-74).
DispatchStatus ==
    /\ proc.pc = "dispatch" /\ env.cwd_ok
    /\ Handler(cli) = "status"
    /\ st' = ApplyCalls(st, StatusCalls)
    /\ proc' = [ proc EXCEPT !.pc = "returned", !.handler = "status",
                             !.log = @ \o StatusCalls,
                             !.out = IF env.stats_ok
                                     THEN StatusReport(get_index_stats(st), cli.status_verbose)
                                     ELSE <<>>,
                             !.result = IF env.stats_ok THEN "Ok" ELSE "Err" ]
    /\ UNCHANGED <<cli, env, cl, dl, ix, se>>

\* Lines 187-189 and 288-295.
DispatchClean ==
    /\ proc.pc = "dispatch" /\ env.cwd_ok
    /\ Handler(cli) = "clean"
    /\ proc' = Running("clean")
    /\ cl' = CleanCommandOf(cli)
    /\ UNCHANGED <<cli, env, dl, ix, se, st>>

\* Lines 191-193 and 315-319.
DispatchAdd ==
    /\ proc.pc = "dispatch" /\ env.cwd_ok
    /\ Handler(cli) = "add"
    /\ proc' = Running("add")
    /\ ix' = AddFileCommandOf(cli)
    /\ UNCHANGED <<cli, env, cl, dl, se, st>>

\* inspect.rs 46-136: the calls InspectCommand::execute makes outside the
\* CLI, as far as it gets: the file is read, the token estimator is made,
\* the file is chunked ("err", "empty" or "some" chunks) and the stats of
\* the directory are read.
InspectCalls(read_ok, estimator_ok, chunks) ==
    <<"read_to_string">> \o
    ( IF ~read_ok THEN <<>>
      ELSE <<"TokenEstimator::new">> \o
           ( IF ~estimator_ok THEN <<>>
             ELSE <<"estimate_tokens", "detect_language", "chunk_file_content">> \o
                  ( IF chunks # "some" THEN <<>>
                    ELSE <<"estimate_tokens", "get_index_stats">> ) ) )

\* inspect.rs 55-144: the lines execute prints.
InspectReport(read_ok, estimator_ok, chunks, stats_ok, stats) ==
    IF ~(read_ok /\ estimator_ok) THEN <<>>
    ELSE <<Out("file_line", 0), Out("language", 0)>> \o
         ( IF chunks = "err" THEN <<>>
           ELSE IF chunks = "empty" THEN <<Out("no_chunks", 0)>>
           ELSE <<Out("chunks", 0)>> \o
                ( IF stats_ok /\ stats.total_files > 0
                  THEN <<Out("indexed_in_directory", stats.total_files)>>
                  ELSE <<>> ) )

\* Lines 195-197 and 300-313, with InspectCommand::validate and execute
\* (inspect.rs 34-154).
DispatchInspect ==
    /\ proc.pc = "dispatch" /\ env.cwd_ok
    /\ Handler(cli) = "inspect"
    /\ IF cli.files = <<>> \/ env.path # "file"
       THEN /\ proc' = [ proc EXCEPT !.pc = "returned", !.handler = "inspect",
                                     !.result = "Err" ]
            /\ st' = st
       ELSE \E read_ok \in BOOLEAN, estimator_ok \in BOOLEAN,
               chunks \in {"err", "empty", "some"} :
               LET calls == InspectCalls(read_ok, estimator_ok, chunks)
               IN  /\ st' = ApplyCalls(st, calls)
                   /\ proc' = [ proc EXCEPT
                                  !.pc = "returned", !.handler = "inspect",
                                  !.log = @ \o calls,
                                  !.out = InspectReport(read_ok, estimator_ok, chunks,
                                                        env.stats_ok, get_index_stats(st)),
                                  !.result = IF read_ok /\ estimator_ok /\ chunks # "err"
                                             THEN "Ok" ELSE "Err" ]
    /\ UNCHANGED <<cli, env, cl, dl, ix, se>>

\* Lines 199-201 and 223-272.
DispatchSearch ==
    /\ proc.pc = "dispatch" /\ env.cwd_ok
    /\ Handler(cli) = "search"
    /\ proc' = Running("search")
    /\ se' = SearchCommandOf(cli)
    /\ UNCHANGED <<cli, env, cl, dl, ix, st>>

\* Line 203: no command specified.
DispatchNone ==
    /\ proc.pc = "dispatch" /\ env.cwd_ok
    /\ Handler(cli) = "none"
    /\ proc' = [ proc EXCEPT !.pc = "returned", !.result = "Err",
                             !.error = Some("no_command_specified") ]
    /\ UNCHANGED <<cli, env, cl, dl, ix, se, st>>

Dispatch ==
    \/ DispatchCwdError \/ DispatchDownloadModel \/ DispatchIndex \/ DispatchStatus
    \/ DispatchClean \/ DispatchAdd \/ DispatchInspect \/ DispatchSearch \/ DispatchNone

\* The command the running handler executes, once it has returned.
Returned ==
    IF proc.handler = "download_model" THEN [ done |-> dl.pc = "done", result |-> dl.result ]
    ELSE IF proc.handler \in {"index", "add"} THEN [ done |-> ix.pc = "done", result |-> ix.result ]
    ELSE IF proc.handler = "clean" THEN [ done |-> cl.pc = "done", result |-> cl.result ]
    ELSE IF proc.handler = "search" THEN [ done |-> se.pc = "done", result |-> se.result ]
    ELSE [ done |-> FALSE, result |-> "none" ]

\* The handler hands the command's result to dispatch's caller
\* (dispatcher.rs 220, 275, 297, 321, 343-352).
CommandReturns ==
    /\ proc.pc = "running"
    /\ Returned.done
    /\ proc' = [ proc EXCEPT !.pc = "returned", !.result = Returned.result ]
    /\ UNCHANGED <<cli, env, cl, dl, ix, se, st>>

\* main (main_complex.rs 12-24): exit(1) on Err, a normal return otherwise.
MainExitCode(result) == IF result = "Err" THEN 1 ELSE 0

\* std::process::exit(1) ends the process at once.  The normal return drops
\* the runtime of #[tokio::main], which waits for the tasks running on the
\* blocking pool: with one left there that never ends, the process stays in
\* the shutdown and has no exit code.
MainExit ==
    /\ proc.pc = "returned"
    /\ proc' = IF proc.result # "Err" /\ dl.left_running
               THEN [ proc EXCEPT !.pc = "shutdown" ]
               ELSE [ proc EXCEPT !.pc = "exited",
                                  !.exit_code = Some(MainExitCode(proc.result)) ]
    /\ UNCHANGED <<cli, env, cl, dl, ix, se, st>>

(***************************************************************************)
(* The subcommand binary: main and run (main.rs).  Each arm of the match   *)
(* in run works on its own, without the dispatcher and the commands; the   *)
(* arms call ck_index and ck_engine, which are answered as the store and   *)
(* the search outcomes answer.                                             *)
(***************************************************************************)
\* main.rs 111: Cli::parse has given the subcommand, run is at its match.
StartedRun(command) == [ IdleProc EXCEPT !.pc = "run", !.command = Some(command) ]

\* main.rs 120, 230, 261: path.unwrap_or_else(|| PathBuf::from(".")).
RunPathOf(path) == IF IsSome(path) THEN Unwrap(path) ELSE "."

\* main.rs 127-132: smart_update_index(&index_path, true, true, &exclude)
\* takes the exclude list but neither --force nor --model; the update is the
\* one of the store with no forced rebuild and the model the index is built
\* with by default.
RunIndexArgs(c) ==
    [ force_rebuild |-> FALSE, model |-> "nomic-embed-text-v1.5", excludes |-> c.exclude ]

\* main.rs 121-124: the four lines printed before the update.
RunIndexHeader(c) ==
    << Out("indexing", RunPathOf(c.path)),
       Out("model", IF IsSome(c.model) THEN Unwrap(c.model) ELSE "default"),
       Out("force_rebuild", c.force),
       Out("exclude_patterns", c.exclude) >>

\* main.rs 114-133: the arm Commands::Index up to its await: the header is
\* printed and the update is called.
RunIndexCall ==
    /\ proc.pc = "run" /\ Unwrap(proc.command).name = "Index"
    /\ proc' = [ proc EXCEPT !.pc = "run_index_await", !.handler = "index",
                             !.log = Append(@, "smart_update_index"),
                             !.out = RunIndexHeader(Unwrap(proc.command)) ]
    /\ UNCHANGED <<cli, env, cl, dl, ix, se, st>>

\* main.rs 133-146: the update answers; its counts are printed, or the
\* process exits with 1.
RunIndexAwait ==
    /\ proc.pc = "run_index_await"
    /\ LET args == RunIndexArgs(Unwrap(proc.command))
       IN  \E failing \in SUBSET StaleFiles(st, args.force_rebuild, args.excludes,
                                            args.model) :
           LET updated == smart_update_index(st, args.force_rebuild, args.excludes,
                                             args.model, failing)
               stats == updated.stats
           IN  IF env.update_ok /\ updated.ok
               THEN /\ st' = Recorded(updated.store,
                                      StoreCall("smart_update_index", args,
                                                st, updated.store, 0, stats))
                    /\ proc' = [ proc EXCEPT
                                   !.pc = "run_returned", !.result = "Ok",
                                   !.out = @ \o <<Out("indexed", stats.files_indexed)>>
                                             \o ( IF stats.files_skipped > 0
                                                  THEN <<Out("skipped", stats.files_skipped)>>
                                                  ELSE <<>> ) ]
               ELSE /\ st' = st
                    /\ proc' = [ proc EXCEPT
                                   !.pc = "exited", !.exit_code = Some(1),
                                   !.error = Some("indexing_failed") ]
    /\ UNCHANGED <<cli, env, cl, dl, ix, se>>

\* main.rs 114-147: the arm Commands::Index, one step on either side of
\* the await at line 133.
RunIndex == RunIndexCall \/ RunIndexAwait

\* main.rs 168-176: the mode of the search subcommand.
RunModeOf(c) ==
    IF c.semantic THEN "Semantic"
    ELSE IF c.lexical THEN "Lexical"
    ELSE IF c.hybrid THEN "Hybrid"
    ELSE "Regex"

\* main.rs 203: the results are written as JSON with --json or --jsonl.
RunJson(c) == c.json \/ c.jsonl

\* main.rs 162-166: the paths searched, the current directory by default.
RunSearchPaths(c) == IF c.paths = <<>> THEN <<".">> ELSE c.paths

\* main.rs 198-224: what one pass of the loop prints for the answer o of
\* ck_engine::search.  The results are written one by one; unwritable is
\* the number of the first result serde_json::to_string (line 204) fails
\* on, 0 when it fails on none: the ? returns there, after the results
\* before it were printed.
RunSearchLines(path, o, json, unwritable) ==
    LET results == IF o.err THEN <<>> ELSE ResultsOf(o)
        written(n) == [ k \in 1..n |->
                          Out(IF json THEN "json" ELSE "result", results[k]) ]
    IN  IF o.err THEN [ out |-> <<Out("search_failed_for", path)>>, ok |-> TRUE ]
        ELSE IF results = <<>>
        THEN [ out |-> <<Out("no_matches_found_in", path)>>, ok |-> TRUE ]
        ELSE IF json /\ unwritable \in 1..Len(results)
        THEN [ out |-> written(unwritable - 1), ok |-> FALSE ]
        ELSE [ out |-> written(Len(results)), ok |-> TRUE ]

\* main.rs 149-197: the arm Commands::Search up to the first await: the
\* header is printed and the search of the first path is called.
RunSearchCall ==
    /\ proc.pc = "run" /\ Unwrap(proc.command).name = "Search"
    /\ LET c == Unwrap(proc.command)
       IN  proc' = [ proc EXCEPT
                       !.pc = "run_search_await", !.handler = "search", !.next = 1,
                       !.log = Append(@, "ck_engine::search"),
                       !.out = << Out("searching_for", c.pattern),
                                  Out("paths", RunSearchPaths(c)),
                                  Out("mode", RunModeOf(c)) >> ]
    /\ UNCHANGED <<cli, env, cl, dl, ix, se, st>>

\* main.rs 197-226: the search of path number proc.next answers and its
\* lines are printed; then the search of the next path is called, or run
\* returns: with the error of line 204, or Ok after the last path.
RunSearchAwait ==
    /\ proc.pc = "run_search_await"
    /\ LET c == Unwrap(proc.command)
           search_paths == RunSearchPaths(c)
       IN  \E o \in SearchOutcomes :
           \E unwritable \in 0..(IF RunJson(c) /\ ~o.err THEN Len(ResultsOf(o)) ELSE 0) :
              LET pass == RunSearchLines(search_paths[proc.next], o, RunJson(c),
                                         unwritable)
              IN  proc' =
                    IF ~pass.ok
                    THEN [ proc EXCEPT !.pc = "run_returned", !.result = "Err",
                                       !.error = Some("serde_json"),
                                       !.out = @ \o pass.out ]
                    ELSE IF proc.next = Len(search_paths)
                    THEN [ proc EXCEPT !.pc = "run_returned", !.result = "Ok",
                                       !.out = @ \o pass.out ]
                    ELSE [ proc EXCEPT !.next = @ + 1,
                                       !.log = Append(@, "ck_engine::search"),
                                       !.out = @ \o pass.out ]
    /\ UNCHANGED <<cli, env, cl, dl, ix, se, st>>

\* main.rs 149-227: the arm Commands::Search, one step for each stretch
\* between two awaits of line 197.
RunSearch == RunSearchCall \/ RunSearchAwait

\* main.rs 233: the one call the status arm makes outside the CLI.
RunStatusCalls == <<"get_index_stats">>

\* main.rs 231-251: the lines the status arm prints for the stats.
RunStatusReport(stats, verbose) ==
    <<Out("index_status_for", 0)>> \o
    ( IF stats.total_files = 0 THEN <<Out("no_index_found", 0)>>
      ELSE <<Out("index_contains", stats.total_files)>> \o
           ( IF verbose
             THEN <<Out("index_size", 0), Out("created", 0), Out("updated", 0)>>
             ELSE <<>> ) )

\* main.rs 229-258: the arm Commands::Status.
RunStatus ==
    /\ proc.pc = "run" /\ Unwrap(proc.command).name = "Status"
    /\ st' = ApplyCalls(st, RunStatusCalls)
    /\ proc' = IF env.stats_ok
               THEN [ proc EXCEPT
                        !.pc = "run_returned", !.handler = "status", !.result = "Ok",
                        !.log = @ \o RunStatusCalls,
                        !.out = RunStatusReport(get_index_stats(st),
                                                Unwrap(proc.command).verbose) ]
               ELSE [ proc EXCEPT
                        !.pc = "exited", !.handler = "status", !.exit_code = Some(1),
                        !.error = Some("failed_to_get_index_stats"),
                        !.log = @ \o RunStatusCalls,
                        !.out = <<Out("index_status_for", 0)>> ]
    /\ UNCHANGED <<cli, env, cl, dl, ix, se>>

\* main.rs 260-277: the arm Commands::Clean.  With --orphans nothing is
\* called; without it clean_index is called at once, with no warning, no
\* prompt and no answer read.
RunClean ==
    /\ proc.pc = "run" /\ Unwrap(proc.command).name = "Clean"
    /\ LET c == Unwrap(proc.command)
           clean_path == RunPathOf(c.path)
       IN  IF c.orphans
           THEN /\ st' = st
                /\ proc' = [ proc EXCEPT
                               !.pc = "run_returned", !.handler = "clean",
                               !.result = "Ok",
                               !.out = << Out("cleaning_orphaned_files_in", clean_path),
                                          Out("orphan_cleanup_not_implemented", clean_path) >> ]
           ELSE IF env.clean_ok
           THEN /\ st' = Recorded(clean_index(st),
                                  StoreCall("clean_index", NoArgs, st, clean_index(st),
                                            0, NoStats))
                /\ proc' = [ proc EXCEPT
                               !.pc = "run_returned", !.handler = "clean",
                               !.result = "Ok",
                               !.log = Append(@, "clean_index"),
                               !.out = << Out("cleaning_entire_index_in", clean_path),
                                          Out("index_cleaned", clean_path) >> ]
           ELSE /\ st' = st
                /\ proc' = [ proc EXCEPT
                               !.pc = "exited", !.handler = "clean",
                               !.exit_code = Some(1),
                               !.error = Some("failed_to_clean_index"),
                               !.log = Append(@, "clean_index"),
                               !.out = <<Out("cleaning_entire_index_in", clean_path)>> ]
    /\ UNCHANGED <<cli, env, cl, dl, ix, se>>

\* main.rs 288-301: what the inspect arm calls once the file exists.
RunInspectCalls(read_ok) ==
    <<"read_to_string">> \o (IF read_ok THEN <<"Language::from_path">> ELSE <<>>)

\* main.rs 279-303: the arm Commands::Inspect.  Whatever exists is read
\* (line 283 tests exists(), not is_file()); a directory exists but cannot
\* be read as a string.
RunInspect ==
    /\ proc.pc = "run" /\ Unwrap(proc.command).name = "Inspect"
    /\ LET header == <<Out("inspecting_file", 0), Out("model", 0)>>
       IN  IF env.path = "missing"
           THEN /\ st' = st
                /\ proc' = [ proc EXCEPT
                               !.pc = "exited", !.handler = "inspect",
                               !.exit_code = Some(1),
                               !.error = Some("file_not_found"),
                               !.out = header ]
           ELSE \E read_ok \in IF env.path = "dir" THEN {FALSE} ELSE BOOLEAN :
                   /\ st' = ApplyCalls(st, RunInspectCalls(read_ok))
                   /\ proc' = [ proc EXCEPT
                                  !.pc = "run_returned", !.handler = "inspect",
                                  !.result = IF read_ok THEN "Ok" ELSE "Err",
                                  !.error = IF read_ok THEN None ELSE Some("read_to_string"),
                                  !.log = @ \o RunInspectCalls(read_ok),
                                  !.out = header \o
                                          ( IF read_ok
                                            THEN << Out("file_line", 0), Out("language", 0),
                                                    Out("inspection_complete", 0) >>
                                            ELSE <<>> ) ]
    /\ UNCHANGED <<cli, env, cl, dl, ix, se>>

\* main.rs 96-101: exit(1) when run returned an error, a normal return
\* otherwise.
RunExitCode(result) == IF result = "Err" THEN 1 ELSE 0

RunExit ==
    /\ proc.pc = "run_returned"
    /\ proc' = [ proc EXCEPT !.pc = "exited", !.exit_code = Some(RunExitCode(proc.result)) ]
    /\ UNCHANGED <<cli, env, cl, dl, ix, se, st>>

RunNext == RunIndex \/ RunSearch \/ RunStatus \/ RunClean \/ RunInspect \/ RunExit

(***************************************************************************)
(* Specifications: the initial states give the inputs of one component or  *)
(* of a whole invocation.                                                  *)
(***************************************************************************)
PathNames == <<"src", "tests", "docs", "lib">>

CacheStates ==
    { c \in [ dir : BOOLEAN, onnx : BOOLEAN, optimized : BOOLEAN ] :
        (c.onnx \/ c.optimized) => c.dir }

ModelNames ==
    { "nomic-embed-text-v1.5", "BAAI/bge-base-en-v1.5", "my-own-model" }

CleanInit ==
    /\ st = DefaultStore
    /\ \E orphans \in BOOLEAN, q \in BOOLEAN :
          cli = [ DefaultCli EXCEPT !.clean = TRUE, !.clean_orphans = orphans, !.quiet = q ]
    /\ \E line \in SeqsUpTo(Chars, MaxInputLen),
          err \in {"none", "flush", "read"}, ok \in BOOLEAN :
          env = [ DefaultEnv EXCEPT !.stdin = line, !.io_error = err, !.clean_ok = ok ]
    /\ cl = CleanCommandOf(cli)
    /\ proc = IdleProc /\ dl = IdleDownloader /\ ix = IdleIndex /\ se = IdleSearch

SpecClean == CleanInit /\ [][CleanNext]_vars

\* download_with_retry alone, for every configuration.
DownloadInit ==
    /\ st = DefaultStore
    /\ cli = DefaultCli
    /\ \E cache \in CacheStates, fe \in BOOLEAN, mk \in BOOLEAN :
          env = [ DefaultEnv EXCEPT !.cache = cache, !.fastembed = fe, !.mkdir_ok = mk ]
    /\ \E m \in 0..MaxRetries, t \in 1..MaxTimeout, off \in BOOLEAN, name \in ModelNames :
          dl = DownloaderOf([ DefaultConfig EXCEPT !.max_retries = m, !.timeout = t,
                                                   !.offline_mode = off ], name)
    /\ proc = IdleProc /\ cl = IdleClean /\ ix = IdleIndex /\ se = IdleSearch

SpecDownload == DownloadInit /\ [][DownloaderNext]_vars

\* The loop's steps are taken when they can be: the timers of the sleeps and
\* of the timeout fire, and a returned call is followed by the next one.
SpecDownloadFair == SpecDownload /\ WF_vars(DownloaderNext)

\* IndexCommand alone, from validate on, for every max_retries.
IndexInit ==
    /\ st = DefaultStore
    /\ \E q \in BOOLEAN, model \in {None} \cup {Some(n) : n \in ModelNames},
          add \in {None, Some("new.rs")}, exclude \in ExcludeSets :
          cli = [ DefaultCli EXCEPT !.index = (add = None), !.add = add,
                                    !.quiet = q, !.model = model,
                                    !.exclude = exclude ]
    /\ \E cache \in CacheStates, path \in {"dir", "file", "missing", "other"},
          up \in BOOLEAN :
          env = [ DefaultEnv EXCEPT !.cache = cache, !.path = path, !.update_ok = up ]
    /\ \E m \in 0..MaxRetries :
          ix = [ (IF cli.index THEN IndexCommandOf(cli) ELSE AddFileCommandOf(cli))
                   EXCEPT !.max_retries = m ]
    /\ proc = IdleProc /\ cl = IdleClean /\ dl = IdleDownloader /\ se = IdleSearch

SpecIndex == IndexInit /\ [][IndexNext]_vars

\* The two retry loops side by side: the same max_retries >= 1 and the same
\* outcome of the k-th attempt (env.script) for both.
RetryPairInit ==
    /\ st = DefaultStore
    /\ \E q \in BOOLEAN : cli = [ DefaultCli EXCEPT !.index = TRUE, !.quiet = q ]
    /\ \E m \in 1..MaxRetries :
          /\ \E script \in [1..m -> {"ok", "fail"}] :
                env = [ DefaultEnv EXCEPT !.script = script ]
          /\ \E t \in 1..MaxTimeout :
                dl = DownloaderOf([ DefaultConfig EXCEPT !.max_retries = m, !.timeout = t ],
                                  "nomic-embed-text-v1.5")
          /\ ix = [ IndexCommandOf(cli) EXCEPT !.pc = "download", !.max_retries = m,
                                               !.model_name = "nomic-embed-text-v1.5" ]
    /\ proc = IdleProc /\ cl = IdleClean /\ se = IdleSearch

RetryPairNext ==
    \/ DlCheckCached \/ DlLoopNext \/ DlTryDownload \/ DlAwait \/ DlExhausted
    \/ IxLoopEnter \/ IxLoopNext \/ IxTryDownloadModel \/ IxExhausted \/ IxUpdate

SpecRetryPair == RetryPairInit /\ [][RetryPairNext]_vars

\* A search invocation, from search_command's validate to the exit.
SearchInit ==
    /\ st = DefaultStore
    /\ \E pattern \in {"", "fn"}, n \in 0..MaxPaths,
          l \in BOOLEAN, ll \in BOOLEAN, q \in BOOLEAN, v \in BOOLEAN,
          mode \in {"regex", "lex", "sem", "hybrid"} :
          cli = [ DefaultCli EXCEPT !.pattern = Some(pattern),
                                    !.files = SubSeq(PathNames, 1, n),
                                    !.files_with_matches = l,
                                    !.files_without_matches = ll,
                                    !.quiet = q, !.verbose = v,
                                    !.regex = (mode = "regex"), !.lex = (mode = "lex"),
                                    !.sem = (mode = "sem"), !.hybrid = (mode = "hybrid") ]
    /\ env = DefaultEnv
    /\ proc = [ IdleProc EXCEPT !.pc = "running", !.handler = "search" ]
    /\ se = SearchCommandOf(cli)
    /\ cl = IdleClean /\ dl = IdleDownloader /\ ix = IdleIndex

SpecSearch == SearchInit /\ [][SearchNext \/ CommandReturns \/ MainExit]_vars

\* Every store over the source files: each file absent or at some content
\* version, each entry absent or built from some version with some model.
StoreStates ==
    { s \in [ source  : [ SourceFiles -> {0} \cup Versions ],
              entries : [ SourceFiles ->
                            {None} \cup { Some(BuildEntry(v, m)) : v \in Versions,
                                                                  m \in IndexModels } ],
              history : { <<>> },
              tmp     : { [ f \in SourceFiles |-> None ] },
              writer  : { [ f \in SourceFiles |-> IdleWriter ] },
              reads   : { {} } ] : TRUE }

\* ck --clean and ck --clean-orphans, alone and together, on every store.
CleanDispatchInit ==
    /\ st \in StoreStates
    /\ \E c \in BOOLEAN, o \in BOOLEAN, q \in BOOLEAN :
          /\ c \/ o
          /\ cli = [ DefaultCli EXCEPT !.clean = c, !.clean_orphans = o, !.quiet = q ]
    /\ \E line \in { <<>>, <<"y", "\n">> }, ok \in BOOLEAN :
          env = [ DefaultEnv EXCEPT !.stdin = line, !.clean_ok = ok ]
    /\ proc = StartedProc
    /\ cl = IdleClean /\ dl = IdleDownloader /\ ix = IdleIndex /\ se = IdleSearch

SpecCleanDispatch ==
    CleanDispatchInit /\ [][DispatchClean \/ CleanNext \/ CommandReturns \/ MainExit]_vars

\* The store's maintenance operations called one after the other, with
\* changes of the source files in between.
StoreSweep ==
    /\ Len(st.history) < MaxOps
    /\ LET swept == clean_orphaned_sidecars(st)
       IN  st' = Recorded(swept.store,
                          StoreCall("clean_orphaned_sidecars", NoArgs, st, swept.store,
                                    swept.removed, NoStats))
    /\ UNCHANGED <<cli, env, proc, cl, dl, ix, se>>

StoreUpdate ==
    /\ Len(st.history) < MaxOps
    /\ \E force_rebuild \in BOOLEAN, model \in IndexModels, excludes \in ExcludeSets :
       \E failing \in SUBSET StaleFiles(st, force_rebuild, excludes, model) :
          LET updated == smart_update_index(st, force_rebuild, excludes, model, failing)
          IN  st' = Recorded(updated.store,
                             StoreCall("smart_update_index",
                                       [ force_rebuild |-> force_rebuild, model |-> model,
                                         excludes |-> excludes ],
                                       st, updated.store, 0, updated.stats))
    /\ UNCHANGED <<cli, env, proc, cl, dl, ix, se>>

\* A source file is written, created or deleted.
StoreEdit ==
    /\ Len(st.history) < MaxOps
    /\ \E f \in SourceFiles : \E v \in ({0} \cup Versions) \ {st.source[f]} :
          LET edited == [ st EXCEPT !.source[f] = v ]
          IN  st' = Recorded(edited, StoreCall("edit", NoArgs, st, edited, 0, NoStats))
    /\ UNCHANGED <<cli, env, proc, cl, dl, ix, se>>

StoreInit ==
    /\ st \in StoreStates
    /\ cli = DefaultCli /\ env = DefaultEnv /\ proc = IdleProc
    /\ cl = IdleClean /\ dl = IdleDownloader /\ ix = IdleIndex /\ se = IdleSearch

SpecStore == StoreInit /\ [][StoreSweep \/ StoreUpdate \/ StoreEdit]_vars

\* Workers rebuilding the entries of different files while searches read.
SpecSidecar == StoreInit /\ [][SidecarNext]_vars

\* A search from the command line on: every combination of the mode flags
\* and of the two file-list flags, with and without a pattern text.
SearchDispatchInit ==
    /\ st = DefaultStore
    /\ \E pattern \in {"", "fn"}, files \in { <<>>, <<"src">> },
          mode \in [ {"regex", "lex", "sem", "hybrid"} -> BOOLEAN ],
          l \in BOOLEAN, ll \in BOOLEAN,
          topk \in {None, Some(5)}, limit \in {None, Some(20)} :
          cli = [ DefaultCli EXCEPT !.pattern = Some(pattern), !.files = files,
                                    !.topk = topk, !.limit = limit,
                                    !.files_with_matches = l,
                                    !.files_without_matches = ll,
                                    !.regex = mode["regex"], !.lex = mode["lex"],
                                    !.sem = mode["sem"], !.hybrid = mode["hybrid"] ]
    /\ env = DefaultEnv
    /\ proc = StartedProc
    /\ cl = IdleClean /\ dl = IdleDownloader /\ ix = IdleIndex /\ se = IdleSearch

SpecSearchDispatch ==
    SearchDispatchInit /\ [][DispatchSearch \/ SearchNext \/ CommandReturns \/ MainExit]_vars

\* main.rs 14-93: the subcommands with their arguments, over a few values.
Commands ==
    [ name : {"Index"}, path : {None, Some("d")},
      model : {None, Some("bogus-model")}, force : BOOLEAN, exclude : ExcludeSets ]
    \cup [ name : {"Search"}, pattern : {"fn"},
           paths : { SubSeq(PathNames, 1, n) : n \in 0..MaxPaths },
           semantic : BOOLEAN, lexical : BOOLEAN, hybrid : BOOLEAN,
           json : BOOLEAN, jsonl : BOOLEAN ]
    \cup [ name : {"Status"}, path : {None, Some("d")}, verbose : BOOLEAN ]
    \cup [ name : {"Clean"}, path : {None, Some("d")}, orphans : BOOLEAN ]
    \cup [ name : {"Inspect"}, file : {"f"}, model : {None, Some("bogus-model")} ]

\* What each subcommand finds: the answers of the calls it makes, and the
\* store for those that look at it.
RunEnvs(c) ==
    IF c.name = "Index" THEN { [ DefaultEnv EXCEPT !.update_ok = ok ] : ok \in BOOLEAN }
    ELSE IF c.name = "Status" THEN { [ DefaultEnv EXCEPT !.stats_ok = ok ] : ok \in BOOLEAN }
    ELSE IF c.name = "Clean"
    THEN { [ DefaultEnv EXCEPT !.clean_ok = ok, !.stdin = line ] :
             ok \in BOOLEAN, line \in { <<>>, <<"n", "\n">> } }
    ELSE IF c.name = "Inspect"
    THEN { [ DefaultEnv EXCEPT !.path = path ] : path \in {"dir", "file", "missing", "other"} }
    ELSE { DefaultEnv }

RunStores(c) == IF c.name = "Search" THEN { DefaultStore } ELSE StoreStates

\* One invocation of the subcommand binary with a subcommand of the names.
RunInitOf(names) ==
    /\ \E c \in Commands :
          /\ c.name \in names
          /\ proc = StartedRun(c)
          /\ env \in RunEnvs(c)
          /\ st \in RunStores(c)
    /\ cli = DefaultCli
    /\ cl = IdleClean /\ dl = IdleDownloader /\ ix = IdleIndex /\ se = IdleSearch

RunInit == RunInitOf({"Index", "Search", "Status", "Clean", "Inspect"})

\* The subcommand binary, every subcommand.
SpecRun == RunInit /\ [][RunNext]_vars

\* ck --status, --status-verbose and --inspect on every store.
DispatchReadOnlyInit ==
    /\ st \in StoreStates
    /\ \E status \in BOOLEAN, verbose \in BOOLEAN, inspect \in BOOLEAN,
          files \in { <<>>, <<"src">> } :
          /\ status \/ verbose \/ inspect
          /\ cli = [ DefaultCli EXCEPT !.status = status, !.status_verbose = verbose,
                                       !.inspect = inspect, !.files = files ]
    /\ \E path \in {"dir", "file", "missing"}, ok \in BOOLEAN :
          env = [ DefaultEnv EXCEPT !.path = path, !.stats_ok = ok ]
    /\ proc = StartedProc
    /\ cl = IdleClean /\ dl = IdleDownloader /\ ix = IdleIndex /\ se = IdleSearch

\* status and inspect of either binary.
ReadOnlyInit == DispatchReadOnlyInit \/ RunInitOf({"Status", "Inspect"})

SpecReadOnly ==
    ReadOnlyInit /\ [][DispatchStatus \/ DispatchInspect \/ MainExit
                        \/ RunStatus \/ RunInspect \/ RunExit]_vars

\* A whole invocation: the command line decides the handler.
DispatchInit ==
    /\ st = DefaultStore
    /\ \E dm \in {None, Some("nomic-embed-text-v1.5")},
          flags \in [ {"index", "reindex", "status", "status_verbose", "clean",
                       "clean_orphans", "inspect", "offline", "quiet"} -> BOOLEAN ],
          add \in {None, Some("new.rs")}, pattern \in {None, Some("fn")},
          files \in {<<>>, <<"src">>} :
          cli = [ DefaultCli EXCEPT !.download_model = dm,
                                    !.index = flags["index"],
                                    !.reindex = flags["reindex"],
                                    !.status = flags["status"],
                                    !.status_verbose = flags["status_verbose"],
                                    !.clean = flags["clean"],
                                    !.clean_orphans = flags["clean_orphans"],
                                    !.inspect = flags["inspect"],
                                    !.offline = flags["offline"],
                                    !.quiet = flags["quiet"],
                                    !.add = add, !.pattern = pattern, !.files = files ]
    /\ \E cached \in BOOLEAN, path \in {"dir", "file"}, cwd \in BOOLEAN,
          line \in {<<>>, <<"y", "\n">>} :
          env = [ DefaultEnv EXCEPT
                    !.cache = [ dir |-> cached, onnx |-> cached, optimized |-> FALSE ],
                    !.path = path, !.cwd_ok = cwd, !.stdin = line ]
    /\ proc = StartedProc
    /\ cl = IdleClean /\ dl = IdleDownloader /\ ix = IdleIndex /\ se = IdleSearch

Next ==
    \/ Dispatch \/ CommandReturns \/ MainExit
    \/ CleanNext \/ DownloaderNext \/ IndexNext \/ SearchNext

Spec == DispatchInit /\ [][Next]_vars

(***************************************************************************)
(* Claims.                                                                 *)
(***************************************************************************)
InLog(log, e) == \E i \in 1..Len(log) : log[i] = e

OpsAt(log, op) == { i \in 1..Len(log) : log[i].op = op }

NumOps(log, op) == Cardinality(OpsAt(log, op))

\* The user's positive confirmation: an answer was read and it is "y",
\* ignoring case and surrounding whitespace.
Confirmed == IsSome(cl.input) /\ eq_ignore_ascii_case(trim(Unwrap(cl.input)), <<"y">>)

\* C1: with orphans_only = false, clean_index is invoked only after a
\* positive confirmation, for every CommandContext, quiet included.
C1_CleanOnlyAfterConfirmation ==
    (~cl.orphans_only /\ InLog(cl.log, "clean_index")) => Confirmed

ModelIsCached == env.cache.dir /\ (env.cache.onnx \/ env.cache.optimized)

\* C2: for a model that is not cached, download_with_retry makes at most
\* max_retries attempts, none after the first successful one, returns Ok
\* exactly when an attempt succeeded, and returns an error when all
\* max_retries attempts have failed.
C2_BoundedRetries ==
    ~ModelIsCached =>
        /\ NumOps(dl.log, "try_download") <= dl.config.max_retries
        /\ \A i \in OpsAt(dl.log, "attempt_ok") :
              \A j \in OpsAt(dl.log, "try_download") : j < i
        /\ dl.pc = "done" => (dl.result = "Ok" <=> NumOps(dl.log, "attempt_ok") > 0)
        /\ (dl.pc = "done" /\ NumOps(dl.log, "attempt_failed") = dl.config.max_retries)
              => dl.result = "Err"
        /\ dl.result = "Ok" => dl.pc = "done"

\* A second attempt succeeded after the first one failed.
C2_Witness ==
    /\ ~ModelIsCached
    /\ dl.pc = "done" /\ dl.result = "Ok"
    /\ NumOps(dl.log, "try_download") = 2
    /\ NumOps(dl.log, "attempt_failed") = 1

\* The task of the attempt in flight does not end within the timeout.
TaskExceedsTimeout ==
    /\ dl.pc = "await"
    /\ Unwrap(dl.task).res = "hang" \/ Unwrap(dl.task).dur > dl.config.timeout

\* C3: every attempt ends within config.timeout, an attempt that exceeds it
\* becomes a failed attempt that is retried like any other, and
\* download_with_retry eventually returns Ok or an error.
C3_NeverBlocks ==
    /\ [](dl.elapsed <= dl.config.timeout)
    /\ [][TaskExceedsTimeout =>
            /\ dl'.pc = "loop"
            /\ dl'.last_error = Some("elapsed")
            /\ dl'.log = Append(dl.log, Ev("attempt_failed", dl.attempt, 0))]_vars
    /\ <>(dl.pc = "done" /\ dl.result \in {"Ok", "Err"})

\* An attempt ran into the timeout, was retried, and the retry succeeded.
C3_Witness ==
    /\ dl.pc = "done" /\ dl.result = "Ok"
    /\ dl.last_error = Some("elapsed")
    /\ dl.elapsed <= dl.config.timeout

Secs(log, at) == { log[i].secs : i \in { j \in OpsAt(log, "sleep") : log[j].at = at } }

\* C4: there is no wait before attempt 1, the wait before attempt k >= 2 is
\* exactly 2^(k-1) seconds, and each wait is double the one before.
C4_ExponentialBackoff ==
    /\ \A i \in OpsAt(dl.log, "try_download") :
          LET k == dl.log[i].at
          IN  IF k = 1
              THEN \A j \in OpsAt(dl.log, "sleep") : j > i
              ELSE /\ i > 1
                   /\ dl.log[i - 1] = Ev("sleep", k, 2 ^ (k - 1))
                   /\ Cardinality({ j \in OpsAt(dl.log, "sleep") : dl.log[j].at = k }) = 1
    /\ \A j \in OpsAt(dl.log, "sleep") :
          /\ dl.log[j].at >= 2
          /\ dl.log[j].at = 2 => dl.log[j].secs = 2
          /\ dl.log[j].at > 2 => Secs(dl.log, dl.log[j].at - 1) = { dl.log[j].secs \div 2 }
          /\ dl.log[j].secs % 2 = 0

\* Three attempts were made, with waits of 2 and 4 seconds.
C4_Witness ==
    /\ NumOps(dl.log, "try_download") = 3
    /\ Secs(dl.log, 2) = {2}
    /\ Secs(dl.log, 3) = {4}

\* C5: in IndexCommand.download_model_with_retry every attempt after the
\* first is directly preceded by a wait of 2^(attempt-1) seconds, quiet or
\* not.
C5_WaitBeforeEveryRetry ==
    \A i \in OpsAt(ix.log, "try_download") :
        ix.log[i].at >= 2 =>
            /\ i > 1
            /\ ix.log[i - 1] = Ev("sleep", ix.log[i].at, 2 ^ (ix.log[i].at - 1))

IsSleep(e) == e.op = "sleep"

Waits(log) == SelectSeq(log, IsSleep)

\* C6: for the same max_retries >= 1 and the same attempt outcomes the two
\* retry loops make the same number of attempts, wait the same delays before
\* each attempt, and agree on success.
C6_UniformRetryPolicy ==
    (dl.pc = "done" /\ ix.pc \in {"update", "done"}) =>
        /\ NumOps(dl.log, "try_download") = NumOps(ix.log, "try_download")
        /\ Waits(dl.log) = Waits(ix.log)
        /\ dl.result = "Ok" <=> NumOps(ix.log, "attempt_ok") > 0

\* C7: with --offline no command reachable from dispatch makes a model
\* download attempt.
C7_OfflineNeverDownloads ==
    cli.offline =>
        /\ NumOps(dl.log, "try_download") = 0
        /\ NumOps(ix.log, "try_download") = 0

\* The target paths of the invocation, as given on the command line.
TargetPaths == IF cli.files = <<>> THEN <<".">> ELSE cli.files

RECURSIVE SumSeq(_)
SumSeq(xs) == IF xs = <<>> THEN 0 ELSE Head(xs) + SumSeq(Tail(xs))

MatchesIn(o) == SumSeq([ k \in 1..Len(FileOrder) |-> o.hits[FileOrder[k]] ])

FilesWithMatchesIn(o) == Cardinality({ f \in Files : o.hits[f] > 0 })

\* Per-path values of the searches made so far, in the order made.
SeenMatches == [ k \in 1..Len(se.seen) |-> MatchesIn(se.seen[k].outcome) ]

SeenFilesWithMatches == [ k \in 1..Len(se.seen) |-> FilesWithMatchesIn(se.seen[k].outcome) ]

SeenFilesSearched == [ k \in 1..Len(se.seen) |-> se.seen[k].outcome.files_searched ]

SeenPaths == [ k \in 1..Len(se.seen) |-> se.seen[k].path ]

AllPathsSearchedWithoutError ==
    /\ SeenPaths = TargetPaths
    /\ \A k \in 1..Len(se.seen) : ~se.seen[k].outcome.err

\* C8: a search invocation exits with code 0 exactly when every target path
\* was searched without error and the matches of all paths together are more
\* than 0; otherwise it exits with a non-zero code.
C8_ExitCode ==
    proc.pc = "exited" =>
        ( Unwrap(proc.exit_code) = 0
            <=> (AllPathsSearchedWithoutError /\ SumSeq(SeenMatches) > 0) )

\* Exit code 0 after two paths of which only the second had matches.
C8_Witness ==
    /\ proc.pc = "exited" /\ proc.exit_code = Some(0)
    /\ Len(se.seen) = 2
    /\ MatchesIn(se.seen[1].outcome) = 0
    /\ MatchesIn(se.seen[2].outcome) > 0

\* C9: each target path is searched exactly once, in turn, and the summary's
\* total_matches, files_with_matches and files_searched are the sums of the
\* per-path values, whatever the order of the paths.
C9_SummarySums ==
    se.pc \in {"loop", "exited"} =>
        /\ SeenPaths = SubSeq(TargetPaths, 1, Len(se.seen))
        /\ se.pc = "exited" => SeenPaths = TargetPaths
        /\ se.total_summary.total_matches = SumSeq(SeenMatches)
        /\ se.total_summary.files_with_matches = SumSeq(SeenFilesWithMatches)
        /\ se.total_summary.files_searched = SumSeq(SeenFilesSearched)

\* Two paths, each with matches, and a first path that looked at more files
\* than the second.
C9_Witness ==
    /\ se.pc = "exited"
    /\ Len(se.seen) = 2
    /\ MatchesIn(se.seen[1].outcome) > 0
    /\ MatchesIn(se.seen[2].outcome) > 0
    /\ se.seen[1].outcome.files_searched > se.seen[2].outcome.files_searched

\* The results under the threshold the searched paths came back with.
SeenClosest ==
    { Unwrap(se.seen[k].outcome.closest) :
        k \in { j \in 1..Len(se.seen) : IsSome(se.seen[j].outcome.closest) } }

BestSeenClosest == CHOOSE x \in SeenClosest : \A y \in SeenClosest : y <= x

IsNearest(e) == e.kind = "nearest"

NearestReported == SelectSeq(se.out, IsNearest)

\* C10 as stated: a semantic or hybrid search that ends with no match and has
\* a best result under the threshold reports that one result; a search with
\* a match never reports one.
C10_NearestReported ==
    (se.pc = "exited" /\ se.mode \in {"Semantic", "Hybrid"}) =>
        /\ (SumSeq(SeenMatches) = 0 /\ SeenClosest # {})
              => NearestReported = <<Out("nearest", BestSeenClosest)>>
        /\ SumSeq(SeenMatches) > 0 => NearestReported = <<>>

\* C10 as amended: the same for a search that is not run with --quiet; with
\* --quiet nothing is reported.
C10_NearestReportedUnlessQuiet ==
    (se.pc = "exited" /\ se.mode \in {"Semantic", "Hybrid"}) =>
        /\ (~se.context.quiet /\ SumSeq(SeenMatches) = 0 /\ SeenClosest # {})
              => NearestReported = <<Out("nearest", BestSeenClosest)>>
        /\ SumSeq(SeenMatches) > 0 => NearestReported = <<>>
        /\ se.context.quiet => NearestReported = <<>>

\* A hybrid search of two paths without a match, each with a result under
\* the threshold, reported the better one.
C10_Witness ==
    /\ se.pc = "exited" /\ se.mode = "Hybrid" /\ ~se.context.quiet
    /\ Len(se.seen) = 2
    /\ SumSeq(SeenMatches) = 0
    /\ Cardinality(SeenClosest) = 2
    /\ NearestReported = <<Out("nearest", BestSeenClosest)>>

IsSweep(call) == call.op = "clean_orphaned_sidecars"

\* The entries of a snapshot whose source file does not exist.
OrphansOf(snapshot) ==
    { f \in SourceFiles : IsSome(snapshot.entries[f]) /\ snapshot.source[f] = 0 }

\* C11: with --clean-orphans, alone or with --clean, the clean command calls
\* only clean_orphaned_sidecars and never clean_index, leaves the entries of
\* existing source files as they were, and reports the count the sweep
\* returned.
C11_OrphansOnly ==
    cli.clean_orphans =>
        /\ ~InLog(cl.log, "clean_index")
        /\ \A k \in DOMAIN st.history :
              /\ IsSweep(st.history[k])
              /\ \A f \in SourceFiles :
                    st.history[k].before.source[f] # 0
                        => st.history[k].after.entries[f] = st.history[k].before.entries[f]
        /\ (cl.pc = "done" /\ cl.result = "Ok") =>
              /\ cl.log = <<"clean_orphaned_sidecars">>
              /\ Len(st.history) = 1
              /\ Len(cl.report) = 1
              /\ cl.report[1].val = st.history[1].removed
              /\ cl.report[1].kind = "removed_orphans" <=> st.history[1].removed > 0

\* --clean --clean-orphans removed one orphaned entry and kept the entry of
\* a file that exists.
C11_Witness ==
    /\ cli.clean /\ cli.clean_orphans
    /\ cl.pc = "done" /\ cl.result = "Ok"
    /\ Len(st.history) = 1 /\ st.history[1].removed = 1
    /\ cl.report = << [ kind |-> "removed_orphans", val |-> 1 ] >>
    /\ \E f \in SourceFiles : st.source[f] # 0 /\ IsSome(st.entries[f])

\* C12: a sweep of N entries of which M have no source file removes exactly
\* those M, returns M and leaves the other N-M entries (and the files) as
\* they were; a second sweep right after the first removes 0.
C12_OrphanSweep ==
    \A k \in DOMAIN st.history :
        IsSweep(st.history[k]) =>
            LET before == st.history[k].before
                after  == st.history[k].after
            IN  /\ \A f \in OrphansOf(before) : after.entries[f] = None
                /\ \A f \in SourceFiles \ OrphansOf(before) :
                      after.entries[f] = before.entries[f]
                /\ after.source = before.source
                /\ st.history[k].removed = Cardinality(OrphansOf(before))
                /\ (k > 1 /\ IsSweep(st.history[k - 1])) => st.history[k].removed = 0

\* Two sweeps in a row of a store with two entries, one of them orphaned.
C12_Witness ==
    /\ Len(st.history) = 2
    /\ IsSweep(st.history[1]) /\ IsSweep(st.history[2])
    /\ Cardinality({ f \in SourceFiles : IsSome(st.history[1].before.entries[f]) }) = 2
    /\ st.history[1].removed = 1
    /\ st.history[2].removed = 0
    /\ Cardinality({ f \in SourceFiles : IsSome(st.entries[f]) }) = 1

\* The command was given a --model that is not one of VALID_MODELS.
UnknownModelGiven == IsSome(ix.model) /\ Unwrap(ix.model) \notin VALID_MODELS

\* C13: an index or --add command with a --model outside VALID_MODELS fails
\* validation with the model-not-found error that lists the available
\* models, before any download attempt and any index update; a model of
\* VALID_MODELS, or no model, passes validation.
C13_ModelValidation ==
    ix.pc \notin {"idle", "validate"} =>
        IF UnknownModelGiven
        THEN /\ ix.pc = "done" /\ ix.result = "Err"
             /\ ix.last_error = Some("model_not_found")
             /\ IsSome(ix.available)
             /\ { Unwrap(ix.available)[k] : k \in DOMAIN Unwrap(ix.available) } = VALID_MODELS
             /\ ix.log = <<>>
             /\ st.history = <<>>
        ELSE /\ ix.last_error # Some("model_not_found")
             /\ ix.available = None

\* --add with an unknown model name was rejected.
C13_Witness ==
    /\ IsSome(cli.add) /\ UnknownModelGiven
    /\ ix.pc = "done" /\ ix.last_error = Some("model_not_found")

\* The run ended because the model could not be obtained or loaded.
EmbeddingUnavailable ==
    ix.last_error \in { Some("download_failed"), Some("not_cached_offline") }

\* C14: when the embedding provider is unavailable during an index run, the
\* run is not aborted: the index update is still performed for the target
\* path.
C14_EmbeddingUnavailableDegrades ==
    (ix.pc = "done" /\ EmbeddingUnavailable) =>
        /\ NumOps(ix.log, "smart_update_index") = 1
        /\ \E k \in DOMAIN st.history : st.history[k].op = "smart_update_index"

IsUpdate(call) == call.op = "smart_update_index"

\* Calls k-1 and k of the history are two updates with the same model and
\* nothing in between.
UpdatedTwice(k) ==
    /\ k > 1
    /\ IsUpdate(st.history[k - 1]) /\ IsUpdate(st.history[k])
    /\ st.history[k].args.model = st.history[k - 1].args.model

\* The update rebuilt no file and left every entry as it was.
RebuiltNothing(call) ==
    /\ call.stats.files_indexed = 0
    /\ call.stats.files_skipped = call.stats.total_files
    /\ call.stats.failed = {}
    /\ call.after.entries = call.before.entries

FirstLeftNothing(k) ==
    /\ ~st.history[k].args.force_rebuild
    /\ st.history[k - 1].args.excludes \subseteq st.history[k].args.excludes
    /\ st.history[k - 1].stats.failed = {}

NewEntry(f) == Some(BuildEntry(st.source[f], st.writer[f].model))

\* The entry file f had before any worker touched it.
OldEntry(f) == IF st.writer[f].pc = "idle" THEN st.entries[f] ELSE st.writer[f].old

\* C16: a reader of a file's entry sees the complete old entry, the complete
\* new entry or none, never a partly written or mixed one, whatever the
\* interleaving with the writer and wherever the writer crashes; and the
\* step of the writer of one file leaves the entries of the other files as
\* they are.
C16_AtomicSidecarWrites ==
    /\ [](\A r \in st.reads :
            \/ r.entry = None
            \/ r.entry = OldEntry(r.file)
            \/ st.writer[r.file].pc = "done" /\ r.entry = NewEntry(r.file))
    /\ [][\A f \in SourceFiles, g \in SourceFiles :
            (f # g /\ st'.writer[f] # st.writer[f])
                => (st'.entries[g] = st.entries[g] /\ st'.tmp[g] = st.tmp[g])]_vars

\* A reader saw the old entry of a file while its new one was staged, and a
\* reader saw the new one after it was published; the worker of the other
\* file crashed.
C16_Witness ==
    \E f \in SourceFiles, g \in SourceFiles :
        /\ f # g
        /\ st.writer[f].pc = "done" /\ st.writer[g].pc = "crashed"
        /\ IsSome(OldEntry(f)) /\ OldEntry(f) # NewEntry(f)
        /\ [ file |-> f, entry |-> OldEntry(f) ] \in st.reads
        /\ [ file |-> f, entry |-> NewEntry(f) ] \in st.reads

IsPrintedFile(e) == e.kind \in {"file", "result"}

\* The files and results the search has printed to stdout.
PrintedFiles == SelectSeq(se.out, IsPrintedFile)

\* How many files each searched path looked at and found no match in.
SeenFilesWithoutMatches ==
    [ k \in 1..Len(se.seen) |->
        se.seen[k].outcome.files_searched - FilesWithMatchesIn(se.seen[k].outcome) ]

\* C17: with --files-without-matches the search prints every searched file
\* that has no match and no file that has one.
C17_ListsFilesWithoutMatches ==
    (se.pc = "exited" /\ se.options.files_without_matches) =>
        /\ Len(PrintedFiles) = SumSeq(SeenFilesWithoutMatches)
        /\ \A i \in DOMAIN PrintedFiles :
              \A k \in DOMAIN se.seen : se.seen[k].outcome.hits[PrintedFiles[i].val] = 0

\* C18: for every combination of --regex, --lex, --sem and --hybrid the
\* command has exactly one of the four modes: Semantic if --sem, else
\* Lexical if --lex, else Hybrid if --hybrid, else Regex (the default with no
\* mode flag).
C18_ModeSelection ==
    se.pc # "idle" =>
        /\ se.mode \in {"Regex", "Lexical", "Semantic", "Hybrid"}
        /\ cli.sem => se.mode = "Semantic"
        /\ (~cli.sem /\ cli.lex) => se.mode = "Lexical"
        /\ (~cli.sem /\ ~cli.lex /\ cli.hybrid) => se.mode = "Hybrid"
        /\ (~cli.sem /\ ~cli.lex /\ ~cli.hybrid) => se.mode = "Regex"

\* --sem with --lex and --hybrid ran as a semantic search to its exit.
C18_Witness ==
    /\ cli.sem /\ cli.lex /\ cli.hybrid /\ ~cli.regex
    /\ se.pc = "exited" /\ se.mode = "Semantic"
    /\ Len(se.seen) = 1

\* The request validation has to reject.
InvalidRequest ==
    \/ cli.pattern = Some("")
    \/ cli.files_with_matches /\ cli.files_without_matches

\* C19: a search with an empty pattern or with both file-list flags is
\* rejected by validation before any path is searched and before anything is
\* printed; ck_search::search is never called with such a request.
C19_RejectedBeforeSearch ==
    /\ (InvalidRequest /\ se.pc \notin {"idle", "validate"}) =>
          /\ se.pc = "done" /\ se.result = "Err" /\ IsSome(se.error)
          /\ se.seen = <<>>
          /\ se.out = <<>>
    /\ se.seen # <<>> => (se.pattern # "" /\ ~InvalidRequest)
    /\ (~InvalidRequest /\ se.pc \notin {"idle", "validate"}) => se.error = None

\* -l together with -L, with a pattern, was rejected and the process left
\* with code 1.
C19_Witness ==
    /\ cli.pattern = Some("fn")
    /\ cli.files_with_matches /\ cli.files_without_matches
    /\ se.pc = "done" /\ se.error = Some("both_file_lists")
    /\ proc.pc = "exited" /\ proc.exit_code = Some(1)

\* model.onnx or model_optimized.onnx exists in the model's cache directory.
ModelFilesInCache == env.cache.dir /\ (env.cache.onnx \/ env.cache.optimized)

\* download_model_with_retry has returned.
DownloadReturned == ix.model_name # "" /\ ix.pc \in {"update", "done"}

\* C20: with max_retries = 0 download_model_with_retry never calls
\* try_download_model; it returns Ok exactly when the model's files are in
\* the cache and an error otherwise, and after that error the index update
\* is not started.
C20_OfflineUsesCacheOnly ==
    ix.max_retries = 0 =>
        /\ NumOps(ix.log, "try_download") = 0
        /\ NumOps(ix.log, "sleep") = 0
        /\ DownloadReturned =>
              /\ NumOps(ix.log, "check_model_cached") = 1
              /\ IF ModelFilesInCache
                 THEN /\ ix.last_error \in {None, Some("indexing_failed")}
                      /\ ix.pc = "done" => NumOps(ix.log, "smart_update_index") = 1
                 ELSE /\ ix.pc = "done" /\ ix.result = "Err"
                      /\ ix.last_error = Some("not_cached_offline")
                      /\ NumOps(ix.log, "smart_update_index") = 0
                      /\ st.history = <<>>

\* Offline, with only model_optimized.onnx in the cache, the index was
\* updated.
C20_Witness ==
    /\ ix.max_retries = 0
    /\ env.cache.dir /\ ~env.cache.onnx /\ env.cache.optimized
    /\ ix.pc = "done" /\ ix.result = "Ok"
    /\ NumOps(ix.log, "smart_update_index") = 1

\* The calls that write the store, fetch a model or load the embedder.
WritingCalls ==
    { "clean_index", "clean_orphaned_sidecars", "smart_update_index",
      "download_with_retry", "try_download", "create_embedder" }

\* C21: the status and inspect commands are read-only: they never create,
\* replace or remove a sidecar entry, never call the model downloader or the
\* embedder, and the store after the command is the store before it.
C21_StatusInspectReadOnly ==
    /\ [](proc.handler \in {"status", "inspect"} =>
            /\ \A k \in DOMAIN proc.log : proc.log[k] \notin WritingCalls
            /\ st.history = <<>>
            /\ dl = IdleDownloader /\ ix = IdleIndex /\ cl = IdleClean)
    /\ [][proc'.handler \in {"status", "inspect"} => st' = st]_vars

\* --status-verbose reported an orphaned entry and left it in the store.
C21_Witness ==
    /\ proc.pc = "exited" /\ proc.handler = "status" /\ proc.exit_code = Some(0)
    /\ \E k \in DOMAIN proc.out : proc.out[k] = Out("orphans_found", 1)
    /\ \E f \in SourceFiles : IsOrphan(st, f)

\* The topk the command line asks for: --topk, else --limit, else unset.
RequestedTopk ==
    IF cli.topk # None THEN cli.topk
    ELSE IF cli.limit # None THEN cli.limit
    ELSE None

\* C22: the topk passed to the search is the --topk value when given, else
\* the --limit value, else unset; with both given --topk wins.
C22_LimitIsAliasOfTopk ==
    /\ se.pc # "idle" => se.options.topk = RequestedTopk
    /\ \A k \in DOMAIN se.seen : se.seen[k].options.topk = RequestedTopk

\* --topk 5 --limit 20: the search was called with topk 5.
C22_Witness ==
    /\ cli.topk = Some(5) /\ cli.limit = Some(20)
    /\ Len(se.seen) = 1
    /\ se.seen[1].options.topk = Some(5)

\* C23: every model name is_valid_model accepts is resolved by the
\* downloader's parse_model_name, so download_with_retry for a validated
\* model never fails with "Unknown model".
C23_ValidModelsResolve ==
    is_valid_model(dl.model_name) =>
        /\ dl.last_error # Some("unknown_model")
        /\ NumOps(dl.log, "try_download") > 0 => parse_model_name(dl.model_name)

\* What the command line asks for, by handler.
Asked(h) ==
    IF h = "download_model" THEN cli.download_model # None
    ELSE IF h = "index" THEN cli.index \/ cli.reindex
    ELSE IF h = "status" THEN cli.status \/ cli.status_verbose
    ELSE IF h = "clean" THEN cli.clean \/ cli.clean_orphans
    ELSE IF h = "add" THEN cli.add # None
    ELSE IF h = "inspect" THEN cli.inspect
    ELSE cli.pattern # None

\* The handlers in the order of their priority.
Priority == <<"download_model", "index", "status", "clean", "add", "inspect", "search">>

\* The handler of the highest priority among those asked for, if any.
IsFirstAsked(h) ==
    \E k \in DOMAIN Priority :
        /\ Priority[k] = h /\ Asked(h)
        /\ \A j \in 1..(k - 1) : ~Asked(Priority[j])

NothingAsked == \A k \in DOMAIN Priority : ~Asked(Priority[k])

\* The commands that have been started.
Started ==
    { x \in {"clean", "download_model", "index_or_add", "search"} :
        \/ x = "clean" /\ cl # IdleClean
        \/ x = "download_model" /\ dl # IdleDownloader
        \/ x = "index_or_add" /\ ix # IdleIndex
        \/ x = "search" /\ se # IdleSearch }

\* The command a handler starts; status and inspect run inside the handler.
CommandOf(h) ==
    IF h \in {"index", "add"} THEN {"index_or_add"}
    ELSE IF h \in {"clean", "download_model", "search"} THEN {h}
    ELSE {}

\* dispatch has chosen by the priority, and only the chosen handler ran.
DispatchedByPriority ==
    /\ IF NothingAsked
       THEN /\ proc.handler = "none"
            /\ proc.result = "Err" /\ proc.error = Some("no_command_specified")
       ELSE IsFirstAsked(proc.handler)
    /\ Started = CommandOf(proc.handler)
    /\ proc.handler \notin {"status", "inspect"} => proc.log = <<>>

\* C24 as stated: every invocation runs exactly one handler, the one of the
\* highest priority among download-model, index/reindex, status,
\* clean/clean-orphans, add, inspect and search pattern; with none of them
\* asked for dispatch returns the no-command error and runs no handler.
C24_OneHandlerByPriority ==
    proc.pc \notin {"idle", "dispatch"} => DispatchedByPriority

\* C24 as amended: the same unless the current directory cannot be read, in
\* which case dispatch returns that error and runs no handler.
C24_OneHandlerByPriorityUnlessNoCwd ==
    proc.pc \notin {"idle", "dispatch"} =>
        IF env.cwd_ok THEN DispatchedByPriority
        ELSE /\ proc.handler = "none" /\ Started = {} /\ proc.log = <<>>
             /\ proc.result = "Err" /\ proc.error = Some("current_dir")

\* --index --clean fn: only the index command ran, to its end.
C24_Witness ==
    /\ cli.index /\ cli.clean /\ cli.pattern # None /\ cli.download_model = None
    /\ proc.pc = "exited" /\ proc.handler = "index"
    /\ Started = {"index_or_add"}
    /\ ix.pc = "done"

\* The events of the model acquisition in the log of the index command.
AcquisitionOps == {"check_model_cached", "sleep", "try_download", "attempt_ok", "attempt_failed"}

\* The model acquisition has returned Ok: the cache answered for an offline
\* command, or an attempt succeeded.
ModelAcquired ==
    \/ /\ ix.max_retries = 0
       /\ NumOps(ix.log, "check_model_cached") = 1
       /\ ModelIsCached
    \/ /\ ix.max_retries > 0
       /\ NumOps(ix.log, "attempt_ok") = 1

ModelAcquisitionFailed ==
    ix.last_error \in { Some("download_failed"), Some("not_cached_offline") }

\* C25: execute checks the prerequisites, then acquires the model, then
\* updates the index: the index update is never called for a path that does
\* not exist nor after a failed model acquisition, and the Indexed N files
\* message is made only after the index update returned Ok.
C25_IndexStepsInOrder ==
    /\ env.path = "missing" => ix.log = <<>> /\ st.history = <<>>
    /\ ModelAcquisitionFailed =>
          /\ ix.pc = "done" /\ ix.result = "Err"
          /\ NumOps(ix.log, "smart_update_index") = 0 /\ st.history = <<>>
    /\ \A k \in OpsAt(ix.log, "smart_update_index") :
          /\ env.path # "missing"
          /\ ModelAcquired
          /\ \A j \in DOMAIN ix.log : ix.log[j].op \in AcquisitionOps => j < k
          /\ NumOps(ix.log, "smart_update_index") = 1
    /\ \A k \in OpsAt(ix.log, "indexed_message") :
          /\ k = Len(ix.log) /\ k > 1 /\ ix.log[k - 1].op = "smart_update_index"
          /\ env.update_ok /\ ix.result = "Ok"
          /\ Len(st.history) = 1 /\ st.history[1].op = "smart_update_index"
          /\ ix.indexed = Some(st.history[1].stats.files_indexed)
    /\ st.history # <<>> => NumOps(ix.log, "indexed_message") = 1

\* The model came at the second attempt, then the index was updated and the
\* message made.
C25_Witness ==
    /\ ix.pc = "done" /\ ix.result = "Ok"
    /\ env.path = "dir"
    /\ NumOps(ix.log, "attempt_failed") = 1 /\ NumOps(ix.log, "attempt_ok") = 1
    /\ ix.log[Len(ix.log)].op = "indexed_message"
    /\ IsSome(ix.indexed) /\ Unwrap(ix.indexed) > 0

\* The lines print_summary can write.
SummaryKinds == {"no_matches", "nearest", "found"}

\* C26: when the search of one path fails, execute returns that error at
\* once: no later path is searched, the summary is not printed, and the
\* process exits non-zero, whatever the earlier paths have printed.
C26_SearchErrorAborts ==
    \A k \in DOMAIN se.seen :
        se.seen[k].outcome.err =>
            /\ k = Len(se.seen) /\ se.next = k
            /\ se.pc = "done" /\ se.result = "Err"
            /\ \A j \in DOMAIN se.out : se.out[j].kind \notin SummaryKinds
            /\ proc.pc \in {"returned", "exited"} => proc.result = "Err"
            /\ proc.pc = "exited" => proc.exit_code = Some(1)

\* The first path printed a match, the second failed, and the process has
\* exited.
C26_Witness ==
    /\ Len(se.search_paths) = 2 /\ Len(se.seen) = 2
    /\ ~se.seen[1].outcome.err /\ MatchesIn(se.seen[1].outcome) > 0
    /\ \E j \in DOMAIN se.out : se.out[j].kind = "result"
    /\ se.seen[2].outcome.err
    /\ proc.pc = "exited" /\ proc.exit_code = Some(1)

\* download_with_retry has made no attempt and no wait.
NoAttemptNoWait ==
    /\ dl.attempt = 0
    /\ NumOps(dl.log, "try_download") = 0
    /\ NumOps(dl.log, "sleep") = 0

\* C27: for a model already in the cache download_with_retry returns the
\* cached path with no download attempt and no wait; in offline mode with
\* the model not in the cache it returns an error, with no download attempt.
C27_CachedOrOfflineNoAttempt ==
    dl.pc \notin {"idle", "start"} =>
        /\ ModelFilesInCache =>
              /\ dl.pc = "done" /\ dl.result = "Ok"
              /\ dl.path = Some(model_path(dl.model_name))
              /\ NoAttemptNoWait
        /\ dl.config.offline_mode /\ ~ModelFilesInCache =>
              /\ dl.pc = "done" /\ dl.result = "Err" /\ dl.path = None
              /\ dl.last_error = Some("not_cached_offline")
              /\ NoAttemptNoWait

\* The cached model was returned to a downloader that had retries to make.
C27_Witness ==
    /\ dl.pc = "done" /\ dl.result = "Ok" /\ ModelFilesInCache
    /\ dl.config.max_retries > 1 /\ ~dl.config.offline_mode
    /\ dl.path = Some(model_path(dl.model_name))
    /\ dl.log = <<>>

====
